---- MODULE Spec2Model ----
(***************************************************************************)
(* Model of the WebSocket dependency-injection and event-dispatch core:    *)
(*   websockets/params.py, websockets/dependencies/{utils,core}.py,        *)
(*   websockets/server.py, utils/utils.py                                  *)
(* One dispatch of a registered event is a small process: the transport    *)
(* calls the wrapper, the wrapper resolves the handler's dependency graph  *)
(* (an explicit call stack of solve_dependency frames), reports payload    *)
(* errors to the client and finally runs the registered teardowns.         *)
(***************************************************************************)
EXTENDS Integers, Sequences, FiniteSets, TLC

\* ------------------------------------------------------------------ bounds
MaxDispatch == 2           \* dispatches that may be in flight
MaxSid == 2                \* connection ids the transport hands out
MaxEmit == 2               \* calls of emit / send by user code
MaxOn == 3                 \* calls of on
MaxReq == 3                \* HTTP requests to the auth service
MaxCrud == 3               \* calls on one CRUD object and its session
MaxParams == 3             \* parameters a handler declares
MaxRoutes == 2             \* routes the application declares
MaxRedis == 2              \* calls on the Redis client in a row
MaxList == 2               \* elements of a list handed to the Redis client

\* --------------------------------------------------------------- constants
WS_1003_UNSUPPORTED_DATA == 1003
WS_1007_INVALID_FRAME_PAYLOAD_DATA == 1007

Disp == 1..MaxDispatch
Sids == 1..MaxSid
Reqs == 1..MaxReq

VARIABLES
  prog,        \* the registered handler graph: shapes, cache flags, annotation
  pc,          \* pc[d]: position of dispatch d in wrapper()
  call,        \* call[d]: the transport's raw arguments, what wrapper was
               \* called with, its locals sid and data, the closure's event
  cache,       \* cache[o]: dict object o, a resolution cache
  teardowns,   \* teardowns[o]: LifespanContext object o's teardowns list
  tdi,         \* tdi[d]: cleanups run_teardowns' loop has been through
  stack,       \* stack[d]: solve_dependency frames awaiting each other
  exc,         \* exc[d]: the exception propagating in dispatch d
  failure,     \* failure[d]: the exception solve_dependency raised into wrapper
  ret,         \* ret[d]: what wrapper() handed back to _trigger_event
  log,         \* log[d]: executions of user code (bodies, cleanups), in order
  outbox,      \* events handed to the transport's emit, in order
  emits,       \* the calls of AsyncServer.emit / send made by user code
  handlers,    \* handlers[event]: the callable the transport has stored
  onlog,       \* the calls of AsyncServer.on and how each ended
  redis,       \* the Redis keyspace: key -> typed value
  last_jti,    \* uuid7.py's _last_v8_timestamp: the newest jti handed out
  rolePerms,   \* roles table: role code -> interface_permissions
  areq,        \* areq[r]: HTTP request r of the auth service and its position
  crud,        \* the BaseSQLModelCRUD instance: constructed?, auto_commit
  db,          \* the committed rows of the table: id -> name
  tx,          \* the rows as the session's open transaction sees them
  crudlog,     \* the calls of the CRUD methods and how each ended
  startup,     \* store_router_in_db: its position, inputs, diff and table
  rcalls       \* the calls made on the AsyncRedisClient and what they returned

\* the dispatch machinery, without the transport's outbox
wsVars == <<prog, pc, call, cache, teardowns, tdi, stack, exc, failure, ret, log>>
\* the server's registration and emission interface
apiVars == <<emits, handlers, onlog>>
\* the auth service: Redis, the jti source, the roles table, the requests
authVars == <<redis, last_jti, rolePerms, areq>>
\* the CRUD base class over one session
crudVars == <<crud, db, tx, crudlog>>
\* the route synchronisation at startup, and the callers of the Redis client
svcVars == <<startup, rcalls>>
\* what a step of a dispatch leaves alone
extVars == <<apiVars, authVars, crudVars, svcVars>>

vars == <<wsVars, outbox, apiVars, authVars, crudVars, svcVars>>

\* ------------------------------------------------------------------ values
\* Every runtime value is a record with a tag t, so values of different
\* Python types can live in one dict.
PyNone == [t |-> "NoneType"]
PyFalse == [t |-> "bool", v |-> FALSE]
PyInt(i) == [t |-> "int", v |-> i]
PyStr(s) == [t |-> "str", v |-> s]
PyList == [t |-> "list"]
PyDict(m) == [t |-> "dict", m |-> m]
EmptyDict == [x \in {} |-> PyNone]
\* the value produced by the n-th invocation of dependency callable f
Produced(f, n) == [t |-> "object", f |-> f, n |-> n]

\* ------------------------------------------------------- websockets/params
Empty == [kind |-> "empty"]
None == [kind |-> "None"]
Depends(dependency, use_cache) ==
  [kind |-> "Depends", dependency |-> dependency, use_cache |-> use_cache]
FastAPIDepends(dependency, use_cache) ==
  [kind |-> "FastAPIDepends", dependency |-> dependency, use_cache |-> use_cache]
SID == [kind |-> "SID", metadata |-> <<>>]
Environ == [kind |-> "Environ", metadata |-> <<>>]
\* a pydantic model class used as annotation (events/connection.py RedisUser)
RedisUser == [kind |-> "Model", metadata |-> <<>>]
Annotated(metadata) == [kind |-> "Annotated", metadata |-> metadata]
Plain(kind) == [kind |-> kind, metadata |-> <<>>]
Default(v) == [kind |-> "value", v |-> v]
Param(name, annotation, default) ==
  [name |-> name, annotation |-> annotation, default |-> default]

\* ------------------------------------------------ the registered callables
Handler == "H"
Deps == {"A", "B", "C"}
Funcs == {Handler} \cup Deps
Shapes == {"plain", "coroutine", "generator", "asyncgen"}
\* A is declared with `async def`, B with `def`, C either way
ProgShapes ==
  {s \in [Deps -> Shapes] : /\ s["A"] \in {"coroutine", "asyncgen"}
                            /\ s["B"] \in {"plain", "generator"}}
Events == {"connect", "disconnect", "message"}

\* inspect.signature(func).parameters of the four callables.  H depends on
\* A and B, both depend on C; the descriptors of C carry prog.use_cache_c.
\* A program that registers another handler carries its parameters in
\* prog.signature.
Signature(f) ==
  CASE f = "H" /\ "signature" \in DOMAIN prog -> prog.signature
    [] f = "H" ->
         << Param("sid", SID, Empty),
            Param("data", prog.data_annotation, Empty),
            Param("a", Annotated(<<Plain("Doc"), Depends("A", TRUE)>>), Empty),
            Param("b", Plain("object"), FastAPIDepends("B", TRUE)),
            Param("limit", Plain("int"), Default(PyInt(10))) >>
    [] f = "A" ->
         << Param("c", Plain("object"), Depends("C", prog.use_cache_c)) >>
    [] f = "B" ->
         << Param("c", Annotated(<<FastAPIDepends("C", prog.use_cache_c)>>), Empty),
            Param("environ", Environ, Empty) >>
    [] f = "C" ->
         << Param("sid", SID, Empty) >>

\* ------------------------------------------ websockets/dependencies/utils
convert_to_depends(obj) ==
  IF obj.kind = "Depends" THEN obj
  ELSE IF obj.kind = "FastAPIDepends" THEN Depends(obj.dependency, obj.use_cache)
  ELSE None

RECURSIVE FirstDepends(_, _)
FirstDepends(metadata, i) ==
  IF i > Len(metadata) THEN None
  ELSE IF convert_to_depends(metadata[i]).kind # "None"
       THEN convert_to_depends(metadata[i])
       ELSE FirstDepends(metadata, i + 1)

extract_annotated_dependency(annotation) ==
  IF annotation.kind # "Annotated" THEN None
  ELSE FirstDepends(annotation.metadata, 1)

extract_default_dependency(default) == convert_to_depends(default)

get_param_depend(param) ==
  IF extract_annotated_dependency(param.annotation).kind # "None"
  THEN extract_annotated_dependency(param.annotation)
  ELSE extract_default_dependency(param.default)

\* --------------------------------------------------------------- payloads
\* RedisUser declares the required string fields id and name.
ModelFields == <<"id", "name">>
FieldValues == {"absent", "str", "int"}
Mappings == [{"id", "name"} -> FieldValues]
Payloads == {PyNone, PyInt(5), PyList} \cup {PyDict(m) : m \in Mappings}
Environs == {PyDict(EmptyDict), PyDict([x \in {"id"} |-> "str"])}

\* no callable is stored for the event
Unregistered == [kind |-> "none"]

\* exceptions
NoExc == [type |-> "none"]
Exception(type, origin, detail) == [type |-> type, origin |-> origin, detail |-> detail]

\* pydantic's e.errors() for RedisUser(**m): one item per offending field,
\* in field declaration order.
RECURSIVE FieldErrors(_, _)
FieldErrors(m, i) ==
  IF i > Len(ModelFields) THEN <<>>
  ELSE LET fld == ModelFields[i]
           here == IF m[fld] = "absent"
                     THEN << [loc |-> <<fld>>, msg |-> "Field required"] >>
                   ELSE IF m[fld] # "str"
                     THEN << [loc |-> <<fld>>, msg |-> "Input should be a valid string"] >>
                   ELSE <<>>
       IN here \o FieldErrors(m, i + 1)

Ok(value) == [exc |-> NoExc, value |-> value]
Raise(e) == [exc |-> e, value |-> PyNone]

\* annotation(**cache["__data__"]) for a model class
ModelInit(data) ==
  IF data.t # "dict" THEN Raise(Exception("TypeError", "payload", <<>>))
  ELSE IF FieldErrors(data.m, 1) # <<>>
    THEN Raise(Exception("ValidationError", "payload", FieldErrors(data.m, 1)))
  ELSE Ok([t |-> "model", cls |-> "RedisUser", m |-> data.m])

\* ---------------------------------------------------- utils/utils.py
\* str.lower() on the messages pydantic produces
Lower(msg) ==
  CASE msg = "Field required" -> "field required"
    [] msg = "Input should be a valid string" -> "input should be a valid string"
    [] OTHER -> msg

\* sep.join(parts): text is a sequence of string pieces
RECURSIVE Join(_, _)
Join(sep, parts) ==
  IF parts = <<>> THEN <<>>
  ELSE IF Len(parts) = 1 THEN parts[1]
  ELSE parts[1] \o <<sep>> \o Join(sep, Tail(parts))

format_validation_errors(errors) ==
  Join("; ", [i \in 1..Len(errors) |->
                Join(".", [j \in 1..Len(errors[i].loc) |-> <<errors[i].loc[j]>>])
                  \o <<" ">> \o <<Lower(errors[i].msg)>>])

\* ------------------------------------------- websockets/dependencies/core
resolve_special_param_data(param, c) == c["__data__"]

\* cache.get("__<annotation name, lowered>__")
resolve_special_param(param, c) ==
  LET key == IF param.annotation.kind = "SID" THEN "__sid__" ELSE "__environ__"
  IN IF key \in DOMAIN c THEN c[key] ELSE PyNone

resolve_unknown_param(param, c) ==
  IF param.annotation.kind = "Model" THEN ModelInit(c["__data__"])
  ELSE Ok(c["__data__"])

_call_handler_raw(event, args) == [pos |-> args, kw |-> [k \in {} |-> PyNone]]

CacheHit_never(func, c, use_cache) == FALSE

\* `if use_cache and func in cache` of solve_dependency
CacheHit(func, c, use_cache) == use_cache /\ func \in DOMAIN c

CacheWrite_always(func, c, use_cache, result) ==
  [k \in DOMAIN c \cup {func} |-> IF k = func THEN result ELSE c[k]]

\* `if use_cache: cache[func] = result` of solve_dependency
CacheWrite(func, c, use_cache, result) ==
  IF use_cache
  THEN [k \in DOMAIN c \cup {func} |-> IF k = func THEN result ELSE c[k]]
  ELSE c

reversed_forward(tds) == tds

\* reversed(self.teardowns): the sequence run_teardowns iterates over
reversed(tds) == [i \in 1..Len(tds) |-> tds[Len(tds) - i + 1]]

CacheOf_shared(d) == 1

\* `cache: dict[Any, Any] = {}` (server.py line 48): the dict object the
\* activation of wrapper for dispatch d creates and works on
CacheOf(d) == d

\* `context = LifespanContext()` (server.py line 47): the context object of
\* the activation of wrapper for dispatch d
ContextOf(d) == d

Frame_skip_first(func, use_cache, name) ==
  [func |-> func, use_cache |-> use_cache, name |-> name, idx |-> 2,
   kwargs |-> [x \in {} |-> PyNone], unknown_params |-> <<>>]

\* the locals of solve_dependency(func, ...) and of the loop of
\* extract_kwargs_from_signature it awaits: idx is the parameter the loop is at
Frame(func, use_cache, name) ==
  [func |-> func, use_cache |-> use_cache, name |-> name, idx |-> 1,
   kwargs |-> [x \in {} |-> PyNone], unknown_params |-> <<>>]

Top(d) == stack[d][Len(stack[d])]
Invocations(d, f) ==
  Cardinality({i \in DOMAIN log[d] : log[d][i].ev = "call" /\ log[d][i].f = f})

Bind(kwargs, name, value) ==
  [k \in DOMAIN kwargs \cup {name} |-> IF k = name THEN value ELSE kwargs[k]]

ReplaceTop(d, fr) == [stack EXCEPT ![d] = SubSeq(@, 1, Len(@) - 1) \o <<fr>>]

\* ------------------------------------------------ auth: users and roles
\* text is a sequence of string pieces (as for Join above)
GET_users == <<"GET", ":", "/users">>
POST_users == <<"POST", ":", "/users">>
GET_POST_roles == <<"GET", ":", "POST", ":", "/roles">>

\* the roles table as initdb leaves it: code -> interface_permissions
RoleCodes == <<"viewer", "editor">>
InitialRolePerms ==
  [c \in {"viewer", "editor"} |->
     IF c = "viewer" THEN <<GET_users>> ELSE <<POST_users, GET_users>>]

\* the users table: root is the admin, bob has no role, carol has two
AuthUsers == {"root", "alice", "bob", "carol"}
User(u) ==
  [id |-> u, username |-> u,
   name |-> CASE u = "root" -> "Root" [] u = "alice" -> "Alice"
              [] u = "bob" -> "Bob" [] OTHER -> "Carol",
   password |-> [bcrypt |-> "secret"],
   is_admin |-> (u = "root"),
   roles |-> CASE u = "alice" -> <<"viewer">>
               [] u = "carol" -> <<"editor", "viewer">>
               [] OTHER -> <<>>]

NoUser == [id |-> "none"]
NoToken == [access_token |-> [key |-> "none"], refresh_token |-> [key |-> "none"]]
NoKey == [fmt |-> "none"]
IdleRequest ==
  [op |-> "none", pc |-> "idle", user |-> NoUser, jti |-> 0, agent |-> "",
   key |-> NoKey, token |-> NoToken, outcome |-> "pending", after |-> {}]

\* ------------------------------------------------------------------- Init
\* everything but the registered handler graph
Constructed ==
  /\ pc = [d \in Disp |-> "idle"]
  /\ call = [d \in Disp |-> [event |-> "none", sid |-> PyNone, data |-> PyNone,
                              raw |-> <<>>, pos |-> <<>>,
                              kw |-> [x \in {} |-> PyNone]]]
  /\ cache = [d \in Disp |-> [x \in {} |-> PyNone]]
  /\ teardowns = [d \in Disp |-> <<>>]
  /\ tdi = [d \in Disp |-> 0]
  /\ stack = [d \in Disp |-> <<>>]
  /\ exc = [d \in Disp |-> NoExc]
  /\ failure = [d \in Disp |-> NoExc]
  /\ ret = [d \in Disp |-> [state |-> "pending", value |-> PyNone]]
  /\ log = [d \in Disp |-> <<>>]
  /\ outbox = <<>>
  /\ emits = <<>>
  /\ handlers = [e \in Events |-> Unregistered]
  /\ onlog = <<>>
  /\ redis = [k \in {} |-> PyNone]
  /\ last_jti = 0
  /\ rolePerms = InitialRolePerms
  /\ areq = [r \in Reqs |-> IdleRequest]
  /\ crud = [constructed |-> FALSE, auto_commit |-> TRUE]
  /\ db = [i \in {} |-> ""]
  /\ tx = [rows |-> [i \in {} |-> ""], new |-> <<>>]
  /\ crudlog = <<>>
  /\ rcalls = <<>>

\* store_router_in_db has not been called
NotStarted == [phase |-> "idle"]

Init ==
  /\ prog \in [shape : ProgShapes,
               use_cache_c : BOOLEAN,
               data_annotation : {RedisUser, Plain("empty")}]
  /\ Constructed
  /\ startup = NotStarted

\* ------------------------------------------------------ websockets/server
\* the positional arguments the transport passes to _trigger_event
RawArgs(event) ==
  IF event = "connect"
    THEN {<<PyStr(s), e>> : s \in Sids, e \in Environs}
           \cup {<<PyStr(s), e, p>> : s \in Sids, e \in Environs, p \in Payloads}
  ELSE IF event = "disconnect"
    THEN {<<PyStr(s), PyStr("client disconnect")>> : s \in Sids}
  ELSE {<<PyStr(s)>> : s \in Sids} \cup {<<PyStr(s), p>> : s \in Sids, p \in Payloads}

\* AsyncServer._call_handler: the positional and keyword arguments the
\* registered callable (the wrapper) is called with
_call_handler(event, args) ==
  IF event = "connect"
    THEN IF Len(args) = 3
           THEN [pos |-> <<args[1], args[3]>>, kw |-> [k \in {"environ"} |-> args[2]]]
         ELSE IF Len(args) = 2
           THEN [pos |-> <<args[1]>>, kw |-> [k \in {"environ"} |-> args[2]]]
         ELSE [pos |-> args, kw |-> [k \in {} |-> PyNone]]
  ELSE IF event = "disconnect"
    THEN [pos |-> SubSeq(args, 1, Len(args) - 1), kw |-> [k \in {} |-> PyNone]]
  ELSE [pos |-> args, kw |-> [k \in {} |-> PyNone]]

\* wrapper lines 50-55: the seed cache
SeedCache(sid, args, kwargs) ==
  [k \in {"__sid__", "__data__", "__environ__"} |->
     IF k = "__sid__" THEN sid
     ELSE IF k = "__data__" THEN (IF args # <<>> THEN args[1] ELSE PyNone)
     ELSE (IF "environ" \in DOMAIN kwargs THEN kwargs["environ"] ELSE PyDict(EmptyDict))]

\* pydantic.alias_generators.to_camel on the field names of the models
to_camel(name) ==
  CASE name = "access_token" -> "accessToken"
    [] name = "refresh_token" -> "refreshToken"
    [] name = "token_type" -> "tokenType"
    [] OTHER -> name

\* BaseModel.model_dump(): the mapping keyed by field name
model_dump(data) == PyDict(data.m)

\* schemas.BaseModel.serializable_dict(): model_dump(mode="json",
\* by_alias=True), the mapping keyed by the camel-case aliases
serializable_dict(data) ==
  PyDict([a \in {to_camel(k) : k \in DOMAIN data.m} |->
            data.m[CHOOSE k \in DOMAIN data.m : to_camel(k) = a]])

\* classes deriving from schemas.BaseModel have serializable_dict;
\* OAuth2TokenResponse derives from pydantic's BaseModel directly
Methods(cls) ==
  IF cls = "OAuth2TokenResponse" THEN {"model_dump"}
  ELSE {"model_dump", "serializable_dict"}

hasattr(data, name) == name \in Methods(data.cls)

\* getattr(data, serializer)()
getattr_call(data, serializer) ==
  IF serializer = "serializable_dict" THEN serializable_dict(data)
  ELSE model_dump(data)

_pydantic_model_to_dict_identity(data, serializer) == data

\* AsyncServer._pydantic_model_to_dict
_pydantic_model_to_dict(data, serializer) ==
  IF data.t = "model"
    THEN IF serializer # "model_dump" /\ hasattr(data, serializer)
           THEN getattr_call(data, serializer)
         ELSE model_dump(data)
  ELSE data

SocketErrorResponse(code, event, message, data) ==
  [t |-> "model", cls |-> "SocketErrorResponse",
   m |-> [code |-> code, event |-> event, message |-> message, data |-> data]]

Emit_broadcast(event, data, to, serializer) ==
  [event |-> event, data |-> _pydantic_model_to_dict(data, serializer), to |-> PyNone]

\* AsyncServer.emit: what the transport's emit receives
Emit(event, data, to, serializer) ==
  [event |-> event, data |-> _pydantic_model_to_dict(data, serializer), to |-> to]

\* AsyncServer.send
Send(data, to, serializer) == Emit("message", data, to, serializer)

\* the `except` clauses of wrapper: the error events emitted for exception e
ErrorEvents(e, event, sid, data) ==
  IF e.type = "ValidationError"
    THEN << Emit("error",
                 SocketErrorResponse(WS_1007_INVALID_FRAME_PAYLOAD_DATA, event,
                                     "Data Validation Error.",
                                     format_validation_errors(e.detail)),
                 sid, "serializable_dict") >>
  ELSE IF e.type = "TypeError"
    THEN << Emit("error",
                 SocketErrorResponse(WS_1003_UNSUPPORTED_DATA, event,
                                     "Data Type Error.",
                                     <<"TypeError: expected a 'map', but received an '",
                                       data.t, "'.">>),
                 sid, "serializable_dict") >>
  ELSE <<>>

\* the exception still propagating after the `except` clauses (bare `raise`)
Reraise(e) == e

\* the value wrapper() returns when solve_dependency produced `result`
WrapperReturn(result) == PyNone

\* --------------------------------------------------------------- actions
\* _trigger_event -> _call_handler -> wrapper, up to its first await
Trigger(d) ==
  /\ pc[d] = "idle"
  /\ \E event \in Events : \E args \in RawArgs(event) :
       LET h == _call_handler(event, args)
           sid == h.pos[1]
           new == SeedCache(sid, Tail(h.pos), h.kw)
           \* the three item assignments of lines 50-55 on the new dict
           seeds == [k \in DOMAIN cache[CacheOf(d)] \cup DOMAIN new |->
                       IF k \in DOMAIN new THEN new[k] ELSE cache[CacheOf(d)][k]]
       IN /\ call' = [call EXCEPT ![d] = [event |-> event, sid |-> sid,
                                          data |-> seeds["__data__"],
                                          raw |-> args, pos |-> h.pos, kw |-> h.kw]]
          /\ cache' = [cache EXCEPT ![CacheOf(d)] = seeds]
          /\ IF CacheHit(Handler, seeds, TRUE)
               THEN /\ stack' = stack
                    /\ pc' = [pc EXCEPT ![d] = "finally"]
               ELSE /\ stack' = [stack EXCEPT ![d] = <<Frame(Handler, TRUE, "")>>]
                    /\ pc' = [pc EXCEPT ![d] = "resolving"]
          /\ tdi' = [tdi EXCEPT ![d] = 0]
  /\ UNCHANGED <<prog, teardowns, exc, failure, ret, log, outbox>>
  /\ UNCHANGED extVars

\* one iteration of the loop of extract_kwargs_from_signature for the frame
\* on top of the stack
ExtractParam(d) ==
  /\ pc[d] = "resolving"
  /\ stack[d] # <<>>
  /\ Top(d).idx <= Len(Signature(Top(d).func))
  /\ LET fr == Top(d)
         param == Signature(fr.func)[fr.idx]
         dep == get_param_depend(param)
         next == [fr EXCEPT !.idx = @ + 1]
     IN IF dep.kind # "None"
          THEN IF CacheHit(dep.dependency, cache[CacheOf(d)], dep.use_cache)
                 THEN stack' = ReplaceTop(d, [next EXCEPT !.kwargs =
                                   Bind(@, param.name, cache[CacheOf(d)][dep.dependency])])
                 ELSE stack' = [stack EXCEPT ![d] =
                                   Append(@, Frame(dep.dependency, dep.use_cache, param.name))]
        ELSE IF param.annotation.kind \in {"SID", "Environ"}
          THEN stack' = ReplaceTop(d, [next EXCEPT !.kwargs =
                            Bind(@, param.name, resolve_special_param(param, cache[CacheOf(d)]))])
        ELSE IF param.default.kind # "empty"
          THEN stack' = ReplaceTop(d, [next EXCEPT !.kwargs =
                            Bind(@, param.name, param.default.v)])
        ELSE stack' = ReplaceTop(d, [next EXCEPT !.unknown_params =
                            Append(@, param.name)])
  /\ UNCHANGED <<prog, pc, call, cache, teardowns, tdi, exc, failure, ret, log, outbox>>
  /\ UNCHANGED extVars

ParamNamed(f, name) ==
  CHOOSE p \in {Signature(f)[i] : i \in DOMAIN Signature(f)} : p.name = name

\* the keyword arguments extract_kwargs_from_signature returns for the top
\* frame (lines 62-67), or the exception binding the payload raises
FinalKwargs(d) ==
  LET fr == Top(d)
  IN IF fr.unknown_params # <<>>
       THEN LET name == fr.unknown_params[1]
                r == resolve_unknown_param(ParamNamed(fr.func, name), cache[CacheOf(d)])
            IN IF r.exc.type # "none" THEN r
               ELSE Ok(Bind(fr.kwargs, name, r.value))
     ELSE Ok(fr.kwargs)

\* an exception leaves solve_dependency and every frame below it
Propagate(d, e) ==
  /\ exc' = [exc EXCEPT ![d] = e]
  /\ failure' = [failure EXCEPT ![d] = e]
  /\ stack' = [stack EXCEPT ![d] = <<>>]
  /\ pc' = [pc EXCEPT ![d] = "except"]

\* the result handed to the caller of solve_dependency
ReturnTo(d, value) ==
  IF Len(stack[d]) = 1
    THEN /\ stack' = [stack EXCEPT ![d] = <<>>]
         /\ pc' = [pc EXCEPT ![d] = "finally"]
         /\ ret' = [ret EXCEPT ![d] = [state |-> "returning", value |-> WrapperReturn(value)]]
    ELSE /\ LET below == stack[d][Len(stack[d]) - 1]
            IN stack' = [stack EXCEPT ![d] = SubSeq(@, 1, Len(@) - 2) \o
                  << [below EXCEPT !.idx = @ + 1,
                                   !.kwargs = Bind(@, Top(d).name, value)] >>]
         /\ UNCHANGED <<pc, ret>>

BodyOutcomes == {"return", "RuntimeError", "TypeError", "ValidationError"}
HandlerReturns == {PyNone, PyFalse}
IsGenerator(f) == f \in Deps /\ prog.shape[f] \in {"generator", "asyncgen"}

\* what a ValidationError raised by user code carries (connection.py line 63:
\* RedisUser.model_validate of an empty mapping)
BodyValidationErrors == FieldErrors([x \in {"id", "name"} |-> "absent"], 1)

Binds_any(f, kwargs) == TRUE

\* `func(**kwargs)` (run_with_lifespan_handling line 125) binds when every
\* parameter without a default has its keyword; otherwise it raises TypeError
Binds(f, kwargs) ==
  \A j \in DOMAIN Signature(f) :
    Signature(f)[j].default.kind = "empty" => Signature(f)[j].name \in DOMAIN kwargs

\* the rest of solve_dependency for the top frame: the payload slot is bound,
\* run_with_lifespan_handling calls the callable and advances a generator to
\* its first yield, the result is cached and handed to the caller
Invoke(d) ==
  /\ pc[d] = "resolving"
  /\ stack[d] # <<>>
  /\ Top(d).idx > Len(Signature(Top(d).func))
  /\ LET fr == Top(d)
         f == fr.func
         kw == FinalKwargs(d)
         n == Invocations(d, f) + 1
     IN IF kw.exc.type # "none"
          THEN /\ Propagate(d, kw.exc)
               /\ UNCHANGED <<cache, teardowns, ret, log>>
        ELSE IF ~Binds(f, kw.value)
          THEN /\ log' = [log EXCEPT ![d] = Append(@,
                     [ev |-> "bind", f |-> f, n |-> n, kwargs |-> kw.value,
                      out |-> "raise", value |-> PyNone])]
               /\ Propagate(d, Exception("TypeError", "call", <<>>))
               /\ UNCHANGED <<cache, teardowns, ret>>
          ELSE \E out \in BodyOutcomes :
                 \E value \in (IF f = Handler THEN HandlerReturns ELSE {Produced(f, n)}) :
                 /\ log' = [log EXCEPT ![d] = Append(@,
                       [ev |-> "call", f |-> f, n |-> n, kwargs |-> kw.value,
                        out |-> IF out # "return" THEN "raise"
                                ELSE IF IsGenerator(f) THEN "yield" ELSE "return",
                        value |-> value])]
                 /\ IF out # "return"
                      THEN /\ value = CHOOSE v \in (IF f = Handler THEN HandlerReturns
                                                  ELSE {Produced(f, n)}) : TRUE
                           /\ Propagate(d, Exception(out, f,
                                 IF out = "ValidationError" THEN BodyValidationErrors ELSE <<>>))
                           /\ UNCHANGED <<cache, teardowns, ret>>
                      ELSE /\ teardowns' = [teardowns EXCEPT ![ContextOf(d)] =
                                 IF IsGenerator(f) THEN Append(@, [f |-> f, n |-> n]) ELSE @]
                           /\ cache' = [cache EXCEPT ![CacheOf(d)] =
                                            CacheWrite(f, @, fr.use_cache, value)]
                           /\ ReturnTo(d, value)
                           /\ UNCHANGED <<exc, failure>>
  /\ UNCHANGED <<prog, call, tdi, outbox>>
  /\ UNCHANGED extVars

\* the `except ValidationError` / `except TypeError` clauses: emit, re-raise
Except(d) ==
  /\ pc[d] = "except"
  /\ outbox' = outbox \o ErrorEvents(exc[d], call[d].event, call[d].sid, call[d].data)
  /\ exc' = [exc EXCEPT ![d] = Reraise(@)]
  /\ pc' = [pc EXCEPT ![d] = "finally"]
  /\ UNCHANGED <<prog, call, cache, teardowns, tdi, stack, failure, ret, log>>
  /\ UNCHANGED extVars

\* one iteration of run_teardowns: `await cleanup()` advances the generator
\* past its yield; StopIteration is swallowed, anything else propagates
RunTeardown(d) ==
  /\ pc[d] = "finally"
  /\ tdi[d] < Len(reversed(teardowns[ContextOf(d)]))
  /\ \E ok \in BOOLEAN :
       LET cleanup == reversed(teardowns[ContextOf(d)])[tdi[d] + 1]
       IN /\ log' = [log EXCEPT ![d] = Append(@,
                [ev |-> "cleanup", f |-> cleanup.f, n |-> cleanup.n,
                 kwargs |-> [x \in {} |-> PyNone],
                 out |-> IF ok THEN "return" ELSE "raise", value |-> PyNone])]
          /\ tdi' = [tdi EXCEPT ![d] = @ + 1]
          /\ IF ok
               THEN UNCHANGED <<exc, pc, ret>>
               ELSE /\ exc' = [exc EXCEPT ![d] =
                          Exception("RuntimeError", "cleanup", <<>>)]
                    /\ pc' = [pc EXCEPT ![d] = "done"]
                    /\ ret' = [ret EXCEPT ![d] = [state |-> "raised", value |-> PyNone]]
  /\ UNCHANGED <<prog, call, cache, teardowns, stack, failure, outbox>>
  /\ UNCHANGED extVars

\* the end of wrapper's finally block: return, or let the exception escape
Leave(d) ==
  /\ pc[d] = "finally"
  /\ tdi[d] = Len(reversed(teardowns[ContextOf(d)]))
  /\ pc' = [pc EXCEPT ![d] = "done"]
  /\ ret' = [ret EXCEPT ![d] =
        IF exc[d].type # "none" THEN [state |-> "raised", value |-> PyNone]
        ELSE [state |-> "returned", value |-> ret[d].value]]
  /\ UNCHANGED <<prog, call, cache, teardowns, tdi, stack, exc, failure, log, outbox>>
  /\ UNCHANGED extVars

\* one dispatch, from the transport's call to the end of wrapper
Next ==
  \/ Trigger(1)
  \/ ExtractParam(1)
  \/ Invoke(1)
  \/ Except(1)
  \/ RunTeardown(1)
  \/ Leave(1)

Spec == Init /\ [][Next]_vars

\* ------------------------------------------------- concurrent dispatches
\* Dispatches are asyncio tasks: each await of wrapper is a point where
\* another dispatch may run.  The handler graph is the diamond with three
\* generators; every dispatch is a message carrying a payload, no body and no
\* cleanup raises.
ConcProgs ==
  [shape : {[f \in Deps |-> IF f = "A" THEN "asyncgen" ELSE "generator"]},
   use_cache_c : BOOLEAN,
   data_annotation : {Plain("empty")}]

InitConc == Init /\ prog \in ConcProgs

\* connection ids are interchangeable: dispatch d is on one of the first d
TriggerConc(d) ==
  /\ Trigger(d)
  /\ call'[d].event = "message"
  /\ call'[d].sid \in {PyStr(c) : c \in 1..d}
  /\ call'[d].raw = <<call'[d].sid, PyInt(5)>>

InvokeConc(d) ==
  /\ Invoke(d)
  /\ exc'[d].type = "none"
  /\ log'[d][Len(log'[d])].value # PyFalse

RunTeardownConc(d) ==
  /\ RunTeardown(d)
  /\ exc'[d].type = "none"

NextConc ==
  \/ \E d \in Disp : TriggerConc(d)
  \/ \E d \in Disp : ExtractParam(d)
  \/ \E d \in Disp : InvokeConc(d)
  \/ \E d \in Disp : RunTeardownConc(d)
  \/ \E d \in Disp : Leave(d)

SpecConc == InitConc /\ [][NextConc]_vars

\* ---------------------------------------------- handlers of any signature
\* The extractor applied to handlers of every declaration: up to MaxParams
\* parameters, each of one of the kinds below.  Dispatches are messages on
\* one connection; no body raises.
ParamNames == <<"p1", "p2", "p3", "p4", "p5">>

\* annotation and default of: an untyped parameter, a model-typed one, the
\* two markers (one of them with a default), a plain default, a default of
\* None, a dependency in Annotated metadata, a dependency as the default of a
\* marker-annotated parameter
ParamKinds ==
  { [annotation |-> Plain("empty"), default |-> Empty],
    [annotation |-> RedisUser, default |-> Empty],
    [annotation |-> SID, default |-> Empty],
    [annotation |-> Environ, default |-> Default(PyInt(10))],
    [annotation |-> Plain("int"), default |-> Default(PyInt(10))],
    [annotation |-> Plain("object"), default |-> Default(PyNone)],
    [annotation |-> Annotated(<<Plain("Doc"), Depends("C", TRUE)>>), default |-> Empty],
    [annotation |-> SID, default |-> FastAPIDepends("C", TRUE)] }

Signatures ==
  UNION { { [j \in 1..n |-> Param(ParamNames[j], k[j].annotation, k[j].default)] :
              k \in [1..n -> ParamKinds] } : n \in 0..MaxParams }

ValidUser == PyDict([x \in {"id", "name"} |-> "str"])

InitExtract ==
  /\ prog \in { [shape |-> [f \in Deps |-> IF f = "A" THEN "coroutine" ELSE "plain"],
                  use_cache_c |-> TRUE,
                  data_annotation |-> Plain("empty"),
                  signature |-> sig] : sig \in Signatures }
  /\ Constructed
  /\ startup = NotStarted

TriggerExtract(d) ==
  /\ Trigger(d)
  /\ call'[d].event = "message"
  /\ call'[d].raw \in {<<PyStr(1), PyInt(5)>>, <<PyStr(1), ValidUser>>}

InvokeExtract(d) ==
  /\ Invoke(d)
  /\ exc'[d].type = "none" \/ exc'[d].origin \in {"payload", "call"}
  /\ log'[d] # log[d] => log'[d][Len(log'[d])].value # PyFalse

NextExtract ==
  \/ TriggerExtract(1)
  \/ ExtractParam(1)
  \/ InvokeExtract(1)
  \/ Except(1)
  \/ Leave(1)

SpecExtract == InitExtract /\ [][NextExtract]_vars

\* ------------------------------------------- emitting from user code
\* instances of schemas/auth.py TokenResponse and OAuth2TokenResponse
TokenResponse ==
  [t |-> "model", cls |-> "TokenResponse",
   m |-> [access_token |-> "a.b.c", refresh_token |-> "d.e.f"]]
OAuth2TokenResponse ==
  [t |-> "model", cls |-> "OAuth2TokenResponse",
   m |-> [access_token |-> "a.b.c", token_type |-> "bearer"]]
EmitPayloads ==
  {TokenResponse, OAuth2TokenResponse, PyNone, PyDict([access_token |-> "a.b.c"])}
\* the default, pydantic's own method, and a name no model defines
Serializers == {"serializable_dict", "model_dump", "to_wire"}
Recipients == {PyNone} \cup {PyStr(c) : c \in Sids}

\* the server with no dispatch in flight
ServerIdle ==
  /\ Init
  /\ prog = CHOOSE p \in ConcProgs : p.use_cache_c

\* user code awaits sio.emit("notice", data, to=to, serializer=serializer)
EmitCall ==
  /\ Len(emits) < MaxEmit
  /\ \E data \in EmitPayloads : \E to \in Recipients : \E serializer \in Serializers :
       /\ emits' = Append(emits, [api |-> "emit", event |-> "notice", data |-> data,
                                  to |-> to, serializer |-> serializer])
       /\ outbox' = Append(outbox, Emit("notice", data, to, serializer))
  /\ UNCHANGED <<wsVars, handlers, onlog, authVars, crudVars, svcVars>>

\* user code awaits sio.send(data, to=to, serializer=serializer)
SendCall ==
  /\ Len(emits) < MaxEmit
  /\ \E data \in EmitPayloads : \E to \in Recipients : \E serializer \in Serializers :
       /\ emits' = Append(emits, [api |-> "send", event |-> "message", data |-> data,
                                  to |-> to, serializer |-> serializer])
       /\ outbox' = Append(outbox, Send(data, to, serializer))
  /\ UNCHANGED <<wsVars, handlers, onlog, authVars, crudVars, svcVars>>

NextEmit ==
  \/ EmitCall
  \/ SendCall

SpecEmit == ServerIdle /\ [][NextEmit]_vars

\* ------------------------------------------------- registering handlers
\* the dependency-resolving closure `wrapper` built around func
Wrapper(func) == [kind |-> "wrapper", func |-> func]
\* the user's function itself
Raw(func) == [kind |-> "raw", func |-> func]
NoHandler == [kind |-> "None"]

\* the transport's on(event, handler, namespace) that line 90 calls: given a
\* handler it stores it and returns None, given none it returns the
\* decorator set_handler
SuperOn(h, event, handler) ==
  IF handler = NoHandler
    THEN [handlers |-> h, value |-> "set_handler"]
  ELSE [handlers |-> [h EXCEPT ![event] = handler], value |-> "None"]

\* decorator(func), with the `handler` of the enclosing call of on: line 90
\* calls what the transport's on returned with the wrapper
decorator(h, event, handler, func) ==
  LET r == SuperOn(h, event, handler)
  IN IF r.value = "set_handler"
       THEN [handlers |-> [r.handlers EXCEPT ![event] = Wrapper(func)],
             outcome |-> "returned", value |-> Wrapper(func)]
     ELSE [handlers |-> r.handlers, outcome |-> "TypeError", value |-> NoHandler]

\* on(event)(func) and on(event, func)   (line 92)
on(h, form, event, func) ==
  IF form = "decorator" THEN decorator(h, event, NoHandler, func)
  ELSE decorator(h, event, Raw(func), func)

Forms == {"decorator", "direct"}

On ==
  /\ Len(onlog) < MaxOn
  /\ \E form \in Forms : \E event \in Events :
       LET r == on(handlers, form, event, Handler)
       IN /\ handlers' = r.handlers
          /\ onlog' = Append(onlog, [form |-> form, event |-> event, func |-> Handler,
                                     outcome |-> r.outcome, value |-> r.value])
  /\ UNCHANGED <<wsVars, outbox, emits, authVars, crudVars, svcVars>>

NextOn == On

SpecOn == ServerIdle /\ [][NextOn]_vars

\* ------------------------------------------------------ core/redis_client
\* AsyncRedisClient.exists: the number of the given keys that exist
redis_exists(rd, key) == IF key \in DOMAIN rd THEN 1 ELSE 0

redis_delete_kept(rd, key) == rd

\* AsyncRedisClient.delete
redis_delete(rd, key) == [k \in DOMAIN rd \ {key} |-> rd[k]]

\* HSET key mapping: the fields are merged into the hash at key
hset(rd, key, mapping) ==
  LET old == IF key \in DOMAIN rd THEN rd[key].v ELSE [f \in {} |-> ""]
  IN [type |-> "hash",
      v |-> [f \in DOMAIN old \cup DOMAIN mapping |->
               IF f \in DOMAIN mapping THEN mapping[f] ELSE old[f]]]

\* LPUSH key v1 v2 ...: each value in turn becomes the head of the list
lpush(rd, key, values) ==
  LET old == IF key \in DOMAIN rd THEN rd[key].v ELSE <<>>
  IN [type |-> "list", v |-> reversed(values) \o old]

\* AsyncRedisClient.set for a dict (hset) or a list (lpush) value, then
\* EXPIRE key ttl
redis_set(rd, key, value, ttl) ==
  LET stored == IF value.t = "dict" THEN hset(rd, key, value.m)
                ELSE lpush(rd, key, value.v)
  IN [k \in DOMAIN rd \cup {key} |->
        IF k = key THEN [type |-> stored.type, v |-> stored.v, ttl |-> ttl]
        ELSE rd[k]]

\* AsyncRedisClient.get_array: LRANGE key 0 -1
get_array(rd, key) == rd[key].v

\* -------------------------------------------- deps/auth.py, deps/role.py
refresh_structure == "auth:refresh:<{user_id}>:<{jti}>"
permission_structure == "auth:permission:<{user_id}>"
\* str.format: the template and the values of its named fields
format(structure, fields) == [fmt |-> structure, args |-> fields]

\* RoleCRUD.get_role_by_codes: the rows whose code is among codes, in table
\* order
get_role_by_codes(rp, codes) ==
  SelectSeq(RoleCodes, LAMBDA c : \E i \in DOMAIN codes : codes[i] = c)

\* [permission for role_info in roles for permission in
\*  role_info.interface_permissions]
RECURSIVE Flatten(_, _)
Flatten(rp, roles) ==
  IF roles = <<>> THEN <<>> ELSE rp[roles[1]] \o Flatten(rp, Tail(roles))

\* create_user_permission_cache: the keyspace afterwards and the list returned
create_user_permission_cache(user_id, codes, rd, rp) ==
  LET redis_key == format(permission_structure, [user_id |-> user_id])
      rd1 == IF redis_exists(rd, redis_key) # 0 THEN redis_delete(rd, redis_key) ELSE rd
      user_permission_list == Flatten(rp, get_role_by_codes(rp, codes))
  IN [redis |-> IF user_permission_list # <<>>
                  THEN redis_set(rd1, redis_key,
                                 [t |-> "list", v |-> user_permission_list],
                                 "ACCESS_TOKEN_EXP")
                ELSE rd1,
      value |-> user_permission_list]

\* ------------------------------------ utils/security.py, services/auth.py
\* UserAccessJWT / UserRefreshJWT.model_validate of the token_info mapping:
\* the field user_id is populated through its alias sub
UserJWT_validate(info) ==
  [f \in (DOMAIN info \ {"sub"}) \cup {"user_id"} |->
     IF f = "user_id" THEN info.sub ELSE info[f]]

\* user.serializable_dict(): by alias, user_id goes out as sub
UserJWT_payload(user) ==
  [f \in (DOMAIN user \ {"user_id"}) \cup {"sub"} |->
     IF f = "sub" THEN user.user_id ELSE user[f]]

\* create_token: the signed JWT, as the payload and the key that signed it
create_token(user, key) == [key |-> key, payload |-> UserJWT_payload(user)]
create_access_token(user) == create_token(user, "ACCESS_TOKEN_KEY")
create_refresh_token(user) == create_token(user, "REFRESH_TOKEN_KEY")

\* decode_token: the model behind a token signed with key
decode_token(token, key) ==
  IF token.key = key THEN Ok(UserJWT_validate(token.payload))
  ELSE Raise(Exception("UnauthorizedException", "decode_token", <<>>))

refresh_value_no_agent(refresh_token, user_agent) ==
  [token |-> refresh_token, agent |-> "", created_at |-> "int(time.time())"]

\* the mapping create_user_token stores under the refresh key
refresh_value(refresh_token, user_agent) ==
  [token |-> refresh_token, agent |-> user_agent, created_at |-> "int(time.time())"]

\* uuid8(): later than every jti handed out before
uuid8(last) == last + 1

\* create_user_token: the keyspace afterwards and the TokenResponse
create_user_token(user_id, name, rd, user_agent, jti) ==
  LET token_info == [sub |-> user_id, name |-> name, jti |-> jti]
      access == UserJWT_validate(token_info)
      access_token == create_access_token(access)
      redis_key == format(refresh_structure, [user_id |-> user_id, jti |-> jti])
      refresh == UserJWT_validate([sub |-> user_id, name |-> name, jti |-> jti,
                                   agent |-> user_agent])
      refresh_token == create_refresh_token(refresh)
  IN [redis |-> redis_set(rd, redis_key,
                          [t |-> "dict", m |-> refresh_value(refresh_token, user_agent)],
                          "REFRESH_TOKEN_EXP"),
      value |-> [access_token |-> access_token, refresh_token |-> refresh_token]]

\* bcrypt.checkpw and the RSA decryption of the submitted password
check_password(password, hashed_password) == hashed_password.bcrypt = password
decrypt_password(encrypted) == encrypted.rsa

UserAgents == {"Firefox", "curl"}
Passwords == {[rsa |-> "secret"], [rsa |-> "guess"]}
Usernames == AuthUsers \cup {"mallory"}

\* the requests that had ended before request r began
Ended == {q \in Reqs : areq[q].pc = "done"}
\* requests are numbered in the order they begin
NextRequest(r) ==
  /\ areq[r].pc = "idle"
  /\ \A q \in Reqs : q < r => areq[q].pc # "idle"
\* the service handles one request at a time
Sequential == \A q \in Reqs : areq[q].pc \in {"idle", "done"}

\* POST /auth/login: user_login, whole
Login(r) ==
  /\ NextRequest(r)
  /\ Sequential
  /\ \E username \in Usernames : \E password \in Passwords : \E user_agent \in UserAgents :
       LET begun == [IdleRequest EXCEPT !.op = "login", !.pc = "done",
                                         !.agent = user_agent, !.after = Ended]
       IN IF username \notin AuthUsers
            THEN /\ areq' = [areq EXCEPT ![r] =
                               [begun EXCEPT !.outcome = "BadRequestException"]]
                 /\ UNCHANGED <<redis, last_jti>>
          ELSE IF ~check_password(decrypt_password(password), User(username).password)
            THEN /\ areq' = [areq EXCEPT ![r] =
                               [begun EXCEPT !.user = User(username),
                                             !.outcome = "BadRequestException"]]
                 /\ UNCHANGED <<redis, last_jti>>
          ELSE LET user_info == User(username)
                   jti == uuid8(last_jti)
                   token == create_user_token(user_info.id, user_info.name, redis,
                                              user_agent, jti)
                   perms == create_user_permission_cache(user_info.id, user_info.roles,
                                                         token.redis, rolePerms)
               IN /\ last_jti' = jti
                  /\ redis' = perms.redis
                  /\ areq' = [areq EXCEPT ![r] =
                                [begun EXCEPT !.user = user_info, !.token = token.value,
                                              !.outcome = "returned"]]
  /\ UNCHANGED <<wsVars, outbox, apiVars, rolePerms, crudVars, svcVars>>

\* the refresh tokens clients hold: those some request returned
IssuedRefreshTokens ==
  {areq[q].token.refresh_token : q \in {x \in Reqs : areq[x].outcome = "returned"}}

\* POST /auth/token/refresh with a token a client holds, sent from the
\* agent it was issued to: the dependencies decode it and load the user,
\* refresh_user_token computes the key
RefreshStart(r) ==
  /\ NextRequest(r)
  /\ \E x_refresh_token \in IssuedRefreshTokens :
       LET jwt_user == decode_token(x_refresh_token, "REFRESH_TOKEN_KEY").value
           user == User(jwt_user.user_id)
       IN areq' = [areq EXCEPT ![r] =
            [IdleRequest EXCEPT !.op = "refresh", !.pc = "exists", !.user = user,
                                !.jti = jwt_user.jti, !.agent = jwt_user.agent,
                                !.key = format(refresh_structure,
                                               [user_id |-> user.id, jti |-> jwt_user.jti]),
                                !.after = Ended]]
  /\ UNCHANGED <<wsVars, outbox, apiVars, redis, last_jti, rolePerms, crudVars, svcVars>>

\* `if not await redis.exists(redis_key): raise PermissionDeniedException()`
RefreshExists(r) ==
  /\ areq[r].pc = "exists"
  /\ areq' = [areq EXCEPT ![r] =
       IF redis_exists(redis, areq[r].key) = 0
         THEN [@ EXCEPT !.pc = "done", !.outcome = "PermissionDeniedException"]
       ELSE [@ EXCEPT !.pc = "delete"]]
  /\ UNCHANGED <<wsVars, outbox, apiVars, redis, last_jti, rolePerms, crudVars, svcVars>>

\* `await redis.delete(redis_key)`
RefreshDelete(r) ==
  /\ areq[r].pc = "delete"
  /\ redis' = redis_delete(redis, areq[r].key)
  /\ areq' = [areq EXCEPT ![r].pc = "create"]
  /\ UNCHANGED <<wsVars, outbox, apiVars, last_jti, rolePerms, crudVars, svcVars>>

\* `token = await create_user_token(user.id, user.username, redis, user_agent)`
RefreshCreate(r) ==
  /\ areq[r].pc = "create"
  /\ LET jti == uuid8(last_jti)
         token == create_user_token(areq[r].user.id, areq[r].user.username, redis,
                                    areq[r].agent, jti)
     IN /\ last_jti' = jti
        /\ redis' = token.redis
        /\ areq' = [areq EXCEPT ![r].pc = "cache", ![r].token = token.value]
  /\ UNCHANGED <<wsVars, outbox, apiVars, rolePerms, crudVars, svcVars>>

\* `await create_user_permission_cache(...)`, `return token`
RefreshCache(r) ==
  /\ areq[r].pc = "cache"
  /\ redis' = create_user_permission_cache(areq[r].user.id, areq[r].user.roles,
                                           redis, rolePerms).redis
  /\ areq' = [areq EXCEPT ![r].pc = "done", ![r].outcome = "returned"]
  /\ UNCHANGED <<wsVars, outbox, apiVars, last_jti, rolePerms, crudVars, svcVars>>

\* a refresh request that begins when no other request is in flight
RefreshBegin(r) == Sequential /\ RefreshStart(r)

NextToken ==
  \/ \E r \in Reqs : Login(r)
  \/ \E r \in Reqs : RefreshBegin(r)
  \/ \E r \in Reqs : RefreshExists(r)
  \/ \E r \in Reqs : RefreshDelete(r)
  \/ \E r \in Reqs : RefreshCreate(r)
  \/ \E r \in Reqs : RefreshCache(r)

SpecToken == ServerIdle /\ [][NextToken]_vars

\* ------------------------------------------- deps/role.py: permission check
\* the routes a request can match: the methods of a route are a set
Routes ==
  {[methods |-> {"GET"}, path |-> "/users"],
   [methods |-> {"POST"}, path |-> "/users"],
   [methods |-> {"GET", "POST"}, path |-> "/roles"]}

\* the orders in which iterating a set of methods can yield them
Orders(S) ==
  {s \in [1..Cardinality(S) -> S] : \A i, j \in DOMAIN s : i # j => s[i] # s[j]}

\* f"{':'.join(route.methods)}:{route.path}", methods in iteration order
route_key(route) ==
  Join(":", [i \in DOMAIN route.methods |-> <<route.methods[i]>>])
    \o <<":", route.path>>

\* `x in list`
In(x, list) == \E i \in DOMAIN list : list[i] = x

verify_user_permission_db(user, route, rd, rp) ==
  LET built == create_user_permission_cache(user.id, user.roles, rd, rp)
  IN [redis |-> IF user.is_admin THEN rd ELSE built.redis,
      cached |-> FALSE,
      user_permission_list |-> built.value,
      outcome |-> IF user.is_admin \/ In(route_key(route), built.value)
                    THEN "returned" ELSE "PermissionDeniedException"]

\* verify_user_permission: the keyspace afterwards, the locals and how the
\* call ends
verify_user_permission(user, route, rd, rp) ==
  IF user.is_admin
    THEN [redis |-> rd, cached |-> FALSE, user_permission_list |-> <<>>,
          outcome |-> "returned"]
  ELSE LET redis_key == format(permission_structure, [user_id |-> user.id])
           hit == redis_exists(rd, redis_key) # 0
           built == create_user_permission_cache(user.id, user.roles, rd, rp)
           user_permission_list == IF hit THEN get_array(rd, redis_key)
                                   ELSE built.value
       IN [redis |-> IF hit THEN rd ELSE built.redis,
           cached |-> hit,
           user_permission_list |-> user_permission_list,
           outcome |-> IF In(route_key(route), user_permission_list)
                         THEN "returned" ELSE "PermissionDeniedException"]

\* a request to a route that depends on verify_user_permission, from a
\* user the database knows
Verify(r) ==
  /\ NextRequest(r)
  /\ Sequential
  /\ \E u \in AuthUsers : \E matched \in Routes : \E methods \in Orders(matched.methods) :
       LET route == [methods |-> methods, path |-> matched.path]
           res == verify_user_permission(User(u), route, redis, rolePerms)
       IN /\ redis' = res.redis
          /\ areq' = [areq EXCEPT ![r] =
               [op |-> "verify", pc |-> "done", user |-> User(u), route |-> route,
                cached |-> res.cached,
                user_permission_list |-> res.user_permission_list,
                outcome |-> res.outcome, after |-> Ended]]
  /\ UNCHANGED <<wsVars, outbox, apiVars, last_jti, rolePerms, crudVars, svcVars>>

\* PUT /roles/{role_id}: update_role replaces a role's interface_permissions
PermissionLists == {<<>>, <<GET_users>>, <<POST_users, GET_users>>, <<GET_POST_roles>>}
UpdateRole(r) ==
  /\ NextRequest(r)
  /\ Sequential
  /\ \E code \in DOMAIN rolePerms : \E interface_permissions \in PermissionLists :
       /\ interface_permissions # rolePerms[code]
       /\ rolePerms' = [rolePerms EXCEPT ![code] = interface_permissions]
       /\ areq' = [areq EXCEPT ![r] =
            [IdleRequest EXCEPT !.op = "update_role", !.pc = "done",
                                !.outcome = "returned", !.after = Ended]]
  /\ UNCHANGED <<wsVars, outbox, apiVars, redis, last_jti, crudVars, svcVars>>

\* the access tokens clients hold
IssuedAccessTokens ==
  {areq[q].token.access_token :
     q \in {x \in Reqs : areq[x].op = "login" /\ areq[x].outcome = "returned"}}

\* POST /auth/logout: removes the refresh entry and the permission list
Logout(r) ==
  /\ NextRequest(r)
  /\ Sequential
  /\ \E access_token \in IssuedAccessTokens :
       LET auth == decode_token(access_token, "ACCESS_TOKEN_KEY").value
           token == format(refresh_structure, [user_id |-> auth.user_id, jti |-> auth.jti])
           rd1 == IF redis_exists(redis, token) # 0 THEN redis_delete(redis, token)
                  ELSE redis
           permission_key == format(permission_structure, [user_id |-> auth.user_id])
       IN /\ redis' = IF redis_exists(rd1, permission_key) # 0
                        THEN redis_delete(rd1, permission_key) ELSE rd1
          /\ areq' = [areq EXCEPT ![r] =
               [IdleRequest EXCEPT !.op = "logout", !.pc = "done",
                                   !.user = User(auth.user_id), !.jti = auth.jti,
                                   !.outcome = "returned", !.after = Ended]]
  /\ UNCHANGED <<wsVars, outbox, apiVars, last_jti, rolePerms, crudVars, svcVars>>

\* a login that succeeds, from one agent
LoginPerm(r) ==
  /\ Login(r)
  /\ areq'[r].outcome = "returned"
  /\ areq'[r].agent = "Firefox"

NextPerm ==
  \/ \E r \in Reqs : LoginPerm(r)
  \/ \E r \in Reqs : Verify(r)
  \/ \E r \in Reqs : Logout(r)
  \/ \E r \in Reqs : UpdateRole(r)

SpecPerm == ServerIdle /\ [][NextPerm]_vars

\* ------------------------------------------------------ crud/crud_sqlmodel
\* the session as the operations see it: db is the committed table (id ->
\* name, name unique), rows the table inside the open transaction, new the
\* objects added to the session and not flushed yet
Session == [db |-> db, rows |-> tx.rows, new |-> tx.new]
Names == {"a", "b"}
Taken(rows, name) == \E i \in DOMAIN rows : rows[i] = name

\* a primary key no row has had
NewId(S) ==
  CHOOSE i \in 1..(Cardinality(DOMAIN S.db \cup DOMAIN S.rows) + 1) :
    i \notin DOMAIN S.db \cup DOMAIN S.rows

\* session.add / session.add_all
session_add_all(S, objs) == [S EXCEPT !.new = @ \o objs]

\* session.flush: INSERT the pending objects; a name that is already in the
\* table, or twice among the pending, violates the unique constraint
Violates(rows, names) ==
  \E i \in DOMAIN names :
    \/ Taken(rows, names[i])
    \/ \E j \in DOMAIN names : j # i /\ names[j] = names[i]
RECURSIVE Insert(_, _)
Insert(S, names) ==
  IF names = <<>> THEN S
  ELSE Insert([S EXCEPT !.rows = [i \in DOMAIN S.rows \cup {NewId(S)} |->
                                    IF i \in DOMAIN S.rows THEN S.rows[i]
                                    ELSE names[1]]],
              Tail(names))
session_flush(S) ==
  IF Violates(S.rows, S.new) THEN [exc |-> "IntegrityError", session |-> S]
  ELSE [exc |-> "none", session |-> [Insert(S, S.new) EXCEPT !.new = <<>>]]

\* session.commit
session_commit(S) == [S EXCEPT !.db = S.rows]

session_rollback_none(S) == S

\* session.rollback
session_rollback(S) == [S EXCEPT !.rows = S.db, !.new = <<>>]

\* BaseSQLModelCRUD.commit: `auto_commit = auto_commit or self.auto_commit`
commit(self, S, auto_commit) ==
  LET effective == auto_commit \/ self.auto_commit
  IN [session |-> IF effective THEN session_commit(S) ELSE S,
      committed |-> effective]

\* the try block of create and create_all
add_flush_commit(self, S, objs, auto_commit) ==
  LET flushed == session_flush(session_add_all(S, objs))
      done == commit(self, flushed.session, auto_commit)
  IN IF flushed.exc = "IntegrityError"
       THEN [session |-> session_rollback(flushed.session),
             outcome |-> "ExistsException", committed |-> FALSE]
     ELSE [session |-> done.session, outcome |-> "returned",
           committed |-> done.committed]

\* BaseSQLModelCRUD.create
create(self, S, create_in, auto_commit) ==
  add_flush_commit(self, S, <<create_in>>, auto_commit)

\* BaseSQLModelCRUD.create_all
create_all(self, S, creates_in, auto_commit) ==
  IF creates_in = <<>>
    THEN [session |-> S, outcome |-> "InvalidParameterError", committed |-> FALSE]
  ELSE add_flush_commit(self, S, creates_in, auto_commit)

\* BaseSQLModelCRUD.update_by_id -> update -> create(validate=False): the row
\* is in the session already, the flush is an UPDATE
update_by_id(self, S, id, name, auto_commit) ==
  IF id \notin DOMAIN S.rows
    THEN [session |-> S, outcome |-> "NotFoundException", committed |-> FALSE]
  ELSE IF \E i \in DOMAIN S.rows : i # id /\ S.rows[i] = name
    THEN [session |-> session_rollback(S), outcome |-> "ExistsException",
          committed |-> FALSE]
  ELSE LET done == commit(self, [S EXCEPT !.rows[id] = name], auto_commit)
       IN [session |-> done.session, outcome |-> "returned",
           committed |-> done.committed]

\* BaseSQLModelCRUD.delete
delete(self, S, id, auto_commit) ==
  IF id \notin DOMAIN S.rows
    THEN [session |-> S, outcome |-> "NotFoundException", committed |-> FALSE]
  ELSE LET done == commit(self,
                          [S EXCEPT !.rows = [i \in DOMAIN S.rows \ {id} |-> S.rows[i]]],
                          auto_commit)
       IN [session |-> done.session, outcome |-> "returned",
           committed |-> done.committed]

\* CRUD(PyUser, session=session, auto_commit=...)
Construct ==
  /\ ~crud.constructed
  /\ \E auto_commit \in BOOLEAN :
       crud' = [constructed |-> TRUE, auto_commit |-> auto_commit]
  /\ UNCHANGED <<wsVars, outbox, apiVars, authVars, svcVars, db, tx, crudlog>>

\* a call on the CRUD object: the session afterwards and the log of calls
CrudCall(op, args, auto_commit, res) ==
  /\ db' = res.session.db
  /\ tx' = [rows |-> res.session.rows, new |-> res.session.new]
  /\ crudlog' = Append(crudlog, [op |-> op, args |-> args, auto_commit |-> auto_commit,
                                 outcome |-> res.outcome, committed |-> res.committed])
  /\ UNCHANGED <<wsVars, outbox, apiVars, authVars, svcVars, crud>>
CanCall == crud.constructed /\ Len(crudlog) < MaxCrud
\* the keys a caller passes: those of the rows it can see, and one of no row
Ids == DOMAIN tx.rows \cup {NewId(Session)}

Create ==
  /\ CanCall
  /\ \E name \in Names : \E auto_commit \in BOOLEAN :
       CrudCall("create", <<name>>, auto_commit,
              create(crud, Session, name, auto_commit))

CreateAll ==
  /\ CanCall
  /\ \E n \in 0..2 : \E creates_in \in [1..n -> Names] : \E auto_commit \in BOOLEAN :
       CrudCall("create_all", creates_in, auto_commit,
              create_all(crud, Session, creates_in, auto_commit))

UpdateById ==
  /\ CanCall
  /\ \E id \in Ids : \E name \in Names : \E auto_commit \in BOOLEAN :
       CrudCall("update_by_id", <<id, name>>, auto_commit,
              update_by_id(crud, Session, id, name, auto_commit))

Delete ==
  /\ CanCall
  /\ \E id \in Ids : \E auto_commit \in BOOLEAN :
       CrudCall("delete", <<id>>, auto_commit, delete(crud, Session, id, auto_commit))

\* the caller commits or rolls back the session itself
SessionCommit ==
  /\ CanCall
  /\ CrudCall("session.commit", <<>>, TRUE,
            [session |-> session_commit(Session), outcome |-> "returned",
             committed |-> TRUE])

SessionRollback ==
  /\ CanCall
  /\ CrudCall("session.rollback", <<>>, FALSE,
            [session |-> session_rollback(Session), outcome |-> "returned",
             committed |-> FALSE])

NextCrud ==
  \/ Construct
  \/ Create
  \/ CreateAll
  \/ UpdateById
  \/ Delete
  \/ SessionCommit
  \/ SessionRollback

SpecCrud == ServerIdle /\ [][NextCrud]_vars

\* ================================================================ claims
IsCall(e) == e.ev = "call"
IsCleanup(e) == e.ev = "cleanup"
Calls(d) == {i \in DOMAIN log[d] : IsCall(log[d][i])}
Cleanups(d) == {i \in DOMAIN log[d] : IsCleanup(log[d][i])}
\* the body of f ran to its return (or first yield)
Called(d, f) == \E i \in Calls(d) : log[d][i].f = f /\ log[d][i].out # "raise"

\* parameter p declares a dependency on callable f
DependsOn(p, f) ==
  /\ get_param_depend(p).kind # "None"
  /\ get_param_depend(p).dependency = f
\* every descriptor that references f is cache-enabled
CachedOnly(f) ==
  \A g \in Funcs : \A j \in DOMAIN Signature(g) :
    DependsOn(Signature(g)[j], f) => get_param_depend(Signature(g)[j]).use_cache
\* the values the callables that ran were handed for their dependency on f
ReceivedFor(d, f) ==
  UNION {{log[d][i].kwargs[Signature(log[d][i].f)[j].name] :
            j \in {k \in DOMAIN Signature(log[d][i].f) :
                     DependsOn(Signature(log[d][i].f)[k], f)}} :
         i \in Calls(d)}

\* C1: within one dispatch a callable referenced only through cache-enabled
\* descriptors is invoked at most once, and everything that depends on it
\* receives the same value.
C1_AtMostOnce ==
  \A d \in Disp : \A f \in Funcs :
    (Invocations(d, f) > 1 \/ Cardinality(ReceivedFor(d, f)) > 1) => ~CachedOnly(f)

\* C1 witness: a finished dispatch of the diamond with C cache-enabled, where
\* A, B and H all ran and C ran once.
C1_Witness ==
  \E d \in Disp :
    /\ pc[d] = "done" /\ prog.use_cache_c
    /\ Called(d, "A") /\ Called(d, "B") /\ Called(d, Handler)
    /\ Invocations(d, "C") = 1
    /\ ReceivedFor(d, "C") = {Produced("C", 1)}

\* C2: the cleanups that have run are, in order, the registered teardowns
\* taken from the last registered backwards.
C2_ReverseOrder ==
  \A d \in Disp :
    LET run == SelectSeq(log[d], IsCleanup)
        tds == teardowns[d]
    IN /\ Len(run) <= Len(tds)
       /\ \A k \in 1..Len(run) :
            /\ run[k].f = tds[Len(tds) - k + 1].f
            /\ run[k].n = tds[Len(tds) - k + 1].n

\* C2 witness: generators set up in the order C, A, B were cleaned up in the
\* order B, A, C.
C2_Witness ==
  \E d \in Disp :
    /\ pc[d] = "done"
    /\ [i \in 1..Len(teardowns[d]) |-> teardowns[d][i].f] = <<"C", "A", "B">>
    /\ LET run == SelectSeq(log[d], IsCleanup)
       IN [i \in 1..Len(run) |-> run[i].f] = <<"B", "A", "C">>

\* C3: once the handler has run, every generator dependency that was set up
\* was set up before the handler body, and its code after the yield has run
\* exactly once, after the handler, by the time the dispatch ends.
C3_GeneratorPairing ==
  \A d \in Disp :
    pc[d] = "done" =>
      \A h \in Calls(d) : log[d][h].f = Handler =>
        \A i \in Calls(d) : log[d][i].out = "yield" =>
          /\ i < h
          /\ Cardinality({c \in Cleanups(d) : /\ log[d][c].f = log[d][i].f
                                              /\ log[d][c].n = log[d][i].n
                                              /\ c > h}) = 1

\* C4: when the wrapper is left, every teardown registered during the
\* dispatch has been run.
C4_AllTeardownsRun ==
  \A d \in Disp :
    pc[d] = "done" =>
      \A k \in DOMAIN teardowns[d] :
        \E c \in Cleanups(d) : /\ log[d][c].f = teardowns[d][k].f
                               /\ log[d][c].n = teardowns[d][k].n

\* the text the claim expects for the violations of payload mapping m
ExpectedPart(m, fld) ==
  IF m[fld] = "absent" THEN <<fld, " ", "field required">>
  ELSE IF m[fld] = "int" THEN <<fld, " ", "input should be a valid string">>
  ELSE <<>>
ExpectedDetails(m) ==
  IF ExpectedPart(m, "id") # <<>> /\ ExpectedPart(m, "name") # <<>>
    THEN ExpectedPart(m, "id") \o <<"; ">> \o ExpectedPart(m, "name")
  ELSE ExpectedPart(m, "id") \o ExpectedPart(m, "name")

PayloadFailed(d, type) ==
  /\ failure[d].type = type
  /\ failure[d].origin = "payload"

\* C5: when coercing the payload into the model parameter failed, exactly one
\* error event has been emitted once the except clause is left: to the
\* originating sid, with code 1007, the event's name and the semicolon-joined
\* field descriptions; the validation error is what the clause re-raises and
\* the wrapper does not return normally.
C5_ValidationErrorEmitted ==
  \A d \in Disp :
    (PayloadFailed(d, "ValidationError") /\ pc[d] \in {"finally", "done"}) =>
      /\ outbox = << [event |-> "error", to |-> call[d].sid,
                      data |-> PyDict([code |-> 1007, event |-> call[d].event,
                                       message |-> "Data Validation Error.",
                                       data |-> ExpectedDetails(call[d].data.m)])] >>
      /\ (pc[d] = "finally" /\ tdi[d] = 0) => exc[d] = failure[d]
      /\ ret[d].state # "returned"
      /\ exc[d].type # "none"

\* C5 witness: a connect dispatch whose payload violated both fields ended.
C5_Witness ==
  \E d \in Disp :
    /\ pc[d] = "done" /\ PayloadFailed(d, "ValidationError")
    /\ Len(failure[d].detail) = 2
    /\ call[d].event = "connect"
    /\ Len(outbox) = 1

\* C6: when the payload for a model parameter was not a mapping, the 1003
\* error event naming the received type has been emitted to the originating
\* sid and the exception that leaves the wrapper is a TypeError.
C6_TypeErrorLeaves ==
  \A d \in Disp :
    (PayloadFailed(d, "TypeError") /\ pc[d] = "done") =>
      /\ outbox = << [event |-> "error", to |-> call[d].sid,
                      data |-> PyDict([code |-> 1003, event |-> call[d].event,
                                       message |-> "Data Type Error.",
                                       data |-> <<"TypeError: expected a 'map', but received an '",
                                                  call[d].data.t, "'.">>])] >>
      /\ exc[d].type = "TypeError"

\* C7: when resolution or the handler raised E, the wrapper does not return
\* normally and the exception that leaves it is E.
C7_FailureLeavesUnchanged ==
  \A d \in Disp :
    (pc[d] = "done" /\ failure[d].type # "none") =>
      /\ ret[d].state = "raised"
      /\ exc[d] = failure[d]

\* C8: an exception raised inside the body of a dependency or of the handler
\* is never translated into an error event.
C8_BodyErrorsNotEmitted ==
  \A d \in Disp :
    (failure[d].type # "none" /\ pc[d] \in {"finally", "done"}) =>
      (failure[d].origin # "payload" => outbox = <<>>)

\* C9: on a successful dispatch the value the wrapper returns to the
\* transport is the value the handler returned.
C9_HandlerReturnStands ==
  \A d \in Disp :
    (pc[d] = "done" /\ ret[d].state = "returned") =>
      \A h \in Calls(d) : log[d][h].f = Handler => ret[d].value = log[d][h].value

\* C10: with use_cache disabled on the descriptors of C, C is never stored in
\* the cache and runs once per reference: twice when both A and B were
\* resolved, each receiving its own value.
C10_CacheBypass ==
  \A d \in Disp :
    ~prog.use_cache_c =>
      /\ "C" \notin DOMAIN cache[d]
      /\ Invocations(d, "C") <= 2
      /\ (Called(d, "A") /\ Called(d, "B")) =>
            /\ Invocations(d, "C") = 2
            /\ ReceivedFor(d, "C") = {Produced("C", 1), Produced("C", 2)}

\* C10 witness: a finished successful dispatch with C cache-disabled in which
\* C ran twice.
C10_Witness ==
  \E d \in Disp :
    /\ pc[d] = "done" /\ ~prog.use_cache_c
    /\ ret[d].state = "returned"
    /\ Called(d, Handler)
    /\ Invocations(d, "C") = 2

\* what the transport seeded dispatch d with: the connection id is the first
\* raw argument; only a connect dispatch carries an environ, as its second
ExpectedSid(d) == call[d].raw[1]
ExpectedEnviron(d) ==
  IF call[d].event = "connect" THEN call[d].raw[2] ELSE PyDict(EmptyDict)

\* C11: every callable that ran, the handler or a nested dependency, was
\* handed the dispatch's connection id for each parameter annotated SID and
\* the dispatch's environ for each parameter annotated Environ (the empty
\* mapping when the dispatch carried none); neither parameter declares a
\* dependency.
C11_MarkersBound ==
  \A d \in Disp : \A i \in Calls(d) :
    \A j \in DOMAIN Signature(log[d][i].f) :
      LET p == Signature(log[d][i].f)[j]
      IN get_param_depend(p).kind = "None" =>
           /\ p.annotation.kind = "SID" =>
                log[d][i].kwargs[p.name] = ExpectedSid(d)
           /\ p.annotation.kind = "Environ" =>
                log[d][i].kwargs[p.name] = ExpectedEnviron(d)

\* C11 witness: a message dispatch (no environ) ended after the nested
\* dependency C received the sid, B the empty environ and H the sid.
C11_Witness ==
  \E d \in Disp :
    /\ pc[d] = "done" /\ call[d].event = "message"
    /\ \E i \in Calls(d) : log[d][i].f = "C" /\ log[d][i].kwargs["sid"] = call[d].raw[1]
    /\ \E i \in Calls(d) : log[d][i].f = "B"
                             /\ log[d][i].kwargs["environ"] = PyDict(EmptyDict)
    /\ \E i \in Calls(d) : log[d][i].f = Handler
                             /\ log[d][i].kwargs["sid"] = call[d].raw[1]

\* C13 as stated: on every connect dispatch the registered callable is called
\* with two positional arguments, the connection id and the payload, and the
\* keyword environ.
C13_ConnectPositional ==
  \A d \in Disp :
    call[d].event = "connect" =>
      /\ Len(call[d].pos) = 2
      /\ call[d].pos[1] = call[d].raw[1]
      /\ call[d].kw = [k \in {"environ"} |-> call[d].raw[2]]

\* C13 amended: on a connect dispatch the registered callable is called with
\* the connection id first and the environment as keyword environ; the
\* payload follows the id positionally when the raw dispatch had three
\* arguments, and with two there is no second positional argument and the
\* wrapper's payload is None.
C13_ConnectNormalised ==
  \A d \in Disp :
    call[d].event = "connect" =>
      /\ call[d].kw = [k \in {"environ"} |-> call[d].raw[2]]
      /\ Len(call[d].raw) = 3 =>
            /\ call[d].pos = <<call[d].raw[1], call[d].raw[3]>>
            /\ call[d].data = call[d].raw[3]
      /\ Len(call[d].raw) = 2 =>
            /\ call[d].pos = <<call[d].raw[1]>>
            /\ call[d].data = PyNone

\* C13 witness: a connect dispatch raised with two arguments has ended.
C13_Witness ==
  \E d \in Disp :
    /\ pc[d] = "done" /\ call[d].event = "connect"
    /\ Len(call[d].raw) = 2
    /\ call[d].kw["environ"] = PyDict([x \in {"id"} |-> "str"])

\* the invocation of dispatch d that produced value v before position i of
\* its log
ProducedBy(d, v, i) ==
  \E k \in Calls(d) : /\ k < i
                       /\ log[d][k].f = v.f /\ log[d][k].n = v.n
                       /\ log[d][k].out # "raise"

\* C12: under every interleaving of the dispatches, each value a callable of
\* a dispatch was handed for a dependency was produced earlier by an
\* invocation of the same dispatch, a callable referenced only through
\* cache-enabled descriptors has run at most once per dispatch and once when
\* the dispatch returned, and every cleanup a dispatch ran belongs to a
\* generator that this dispatch set up, each run at most once.
C12_DispatchesIsolated ==
  \A d \in Disp :
    /\ \A i \in Calls(d) : \A j \in DOMAIN Signature(log[d][i].f) :
         LET p == Signature(log[d][i].f)[j]
         IN get_param_depend(p).kind # "None" =>
              ProducedBy(d, log[d][i].kwargs[p.name], i)
    /\ \A f \in Funcs :
         (\/ Invocations(d, f) > 1
          \/ ret[d].state = "returned" /\ Invocations(d, f) # 1) => ~CachedOnly(f)
    /\ \A c \in Cleanups(d) :
         /\ \E k \in Calls(d) : /\ k < c /\ log[d][k].out = "yield"
                                 /\ log[d][k].f = log[d][c].f
                                 /\ log[d][k].n = log[d][c].n
         /\ \A c2 \in Cleanups(d) :
              (log[d][c2].f = log[d][c].f /\ log[d][c2].n = log[d][c].n) => c2 = c

\* C12 witness: two dispatches of the same connection overlap: the first is
\* in the middle of its teardowns while the second, which has cached its own
\* C, is still resolving.
C12_Witness ==
  /\ pc[1] = "finally" /\ tdi[1] = 1
  /\ pc[2] = "resolving" /\ "C" \in DOMAIN cache[CacheOf(2)]
  /\ call[1].sid = call[2].sid
  /\ prog.use_cache_c

\* C14: for every call of emit or send, what the transport was handed is, for
\* a model instance, the mapping its method named by `serializer` produces,
\* or its model_dump() when it has no such method, and for anything else the
\* payload itself.
C14_ModelsSerialised ==
  /\ Len(outbox) = Len(emits)
  /\ \A i \in DOMAIN emits :
       LET data == emits[i].data
           name == emits[i].serializer
           sent == outbox[i].data
       IN /\ outbox[i].event = emits[i].event
          /\ outbox[i].to = emits[i].to
          /\ data.t # "model" => sent = data
          /\ data.t = "model" =>
               /\ sent.t = "dict"
               /\ (name = "serializable_dict" /\ data.cls = "TokenResponse") =>
                    sent.m = [accessToken |-> data.m.access_token,
                              refreshToken |-> data.m.refresh_token]
               /\ (name # "serializable_dict" \/ data.cls # "TokenResponse") =>
                    sent.m = data.m

\* C14 witness: a model without serializable_dict was sent with the default
\* serializer and a model with it was emitted, both as mappings.
C14_Witness ==
  \E i, j \in DOMAIN emits :
    /\ emits[i].api = "send" /\ emits[i].data = OAuth2TokenResponse
    /\ emits[i].serializer = "serializable_dict"
    /\ outbox[i].data = PyDict([access_token |-> "a.b.c", token_type |-> "bearer"])
    /\ emits[j].api = "emit" /\ emits[j].data = TokenResponse
    /\ emits[j].serializer = "serializable_dict"
    /\ outbox[j].data = PyDict([accessToken |-> "a.b.c", refreshToken |-> "d.e.f"])

\* C15: every call of on, in either form, has returned, and the callable the
\* transport holds for an event is the wrapper of the handler that event was
\* last registered with.
C15_RegistrationWraps ==
  \A i \in DOMAIN onlog :
    /\ onlog[i].outcome = "returned"
    /\ (\A j \in DOMAIN onlog : j > i => onlog[j].event # onlog[i].event) =>
          handlers[onlog[i].event] = Wrapper(onlog[i].func)

\* refresh request r returned a token pair
Refreshed(r) == areq[r].op = "refresh" /\ areq[r].outcome = "returned"
\* the jti of the token pair request r holds
NewJti(r) == areq[r].token.refresh_token.payload.jti
\* the Redis key of the refresh token of user u with jti j, written out
RefreshKey(u, j) ==
  [fmt |-> "auth:refresh:<{user_id}>:<{jti}>", args |-> [user_id |-> u, jti |-> j]]
\* a refresh request presenting the token stored under key has passed its
\* existence check and gone on to delete the entry
ConsumedBy(key) ==
  \E q \in Reqs : /\ areq[q].op = "refresh" /\ areq[q].key = key
                   /\ areq[q].pc \in {"create", "cache", "done"}
                   /\ areq[q].outcome # "PermissionDeniedException"

\* C16: once refresh_user_token has returned for a user and jti, the Redis
\* entry of that refresh token is gone for good, the new pair carries a jti
\* no other token carries and its entry exists until a refresh of the new
\* token consumes it, and every refresh call with the old jti that began
\* after the return ends with PermissionDeniedException.
C16_RefreshSingleUse ==
  \A r \in Reqs : Refreshed(r) =>
    /\ areq[r].key = RefreshKey(areq[r].user.id, areq[r].jti)
    /\ areq[r].key \notin DOMAIN redis
    /\ NewJti(r) # areq[r].jti
    /\ \A q \in Reqs \ {r} :
         areq[q].token.refresh_token.key # "none" => NewJti(q) # NewJti(r)
    /\ \/ RefreshKey(areq[r].user.id, NewJti(r)) \in DOMAIN redis
       \/ ConsumedBy(RefreshKey(areq[r].user.id, NewJti(r)))
    /\ \A q \in Reqs :
         (areq[q].op = "refresh" /\ areq[q].key = areq[r].key /\ r \in areq[q].after) =>
           \/ areq[q].pc = "exists"
           \/ areq[q].outcome = "PermissionDeniedException"

\* C16 witness: a login, a refresh of its token that returned, and a later
\* refresh with the same jti that was refused.
C16_Witness ==
  \E r, q \in Reqs :
    /\ Refreshed(r)
    /\ areq[q].op = "refresh" /\ areq[q].key = areq[r].key /\ r \in areq[q].after
    /\ areq[q].outcome = "PermissionDeniedException"
    /\ RefreshKey(areq[r].user.id, NewJti(r)) \in DOMAIN redis

\* C17: after a login that returned, the access and the refresh token decode
\* to the same jti, the refresh token's agent is the request's User-Agent,
\* and Redis holds under auth:refresh:<user_id>:<jti> a hash whose token is
\* the returned refresh token and whose agent is that agent, until a refresh
\* of this token consumes the entry.
C17_LoginTokens ==
  \A r \in Reqs :
    (areq[r].op = "login" /\ areq[r].outcome = "returned") =>
      LET access == decode_token(areq[r].token.access_token, "ACCESS_TOKEN_KEY").value
          refresh == decode_token(areq[r].token.refresh_token, "REFRESH_TOKEN_KEY").value
          key == RefreshKey(areq[r].user.id, access.jti)
      IN /\ access.jti = refresh.jti
         /\ access.user_id = areq[r].user.id
         /\ refresh.agent = areq[r].agent
         /\ key \in DOMAIN redis \/ ConsumedBy(key)
         /\ key \in DOMAIN redis =>
              /\ redis[key].type = "hash"
              /\ redis[key].v.token = areq[r].token.refresh_token
              /\ redis[key].v.agent = refresh.agent

\* C17 witness: alice has logged in from curl and her refresh entry is in
\* Redis.
C17_Witness ==
  \E r \in Reqs :
    /\ areq[r].op = "login" /\ areq[r].outcome = "returned"
    /\ areq[r].user.id = "alice" /\ areq[r].agent = "curl"
    /\ RefreshKey("alice", NewJti(r)) \in DOMAIN redis
    /\ redis[RefreshKey("alice", NewJti(r))].v.agent = "curl"

\* the permission strings a check of this user goes by: those of the cached
\* list when Redis holds the user's permission key, those of the user's roles
\* otherwise
PermissionKey(user) ==
  [fmt |-> "auth:permission:<{user_id}>", args |-> [user_id |-> user.id]]
Listed(rd, key) ==
  IF key \in DOMAIN rd THEN {rd[key].v[i] : i \in DOMAIN rd[key].v} ELSE {}
RolePermissions(rp, user) ==
  UNION {{rp[c][i] : i \in DOMAIN rp[c]} : c \in {user.roles[j] : j \in DOMAIN user.roles}}
PermissionSet(rd, rp, user) ==
  IF PermissionKey(user) \in DOMAIN rd THEN Listed(rd, PermissionKey(user))
  ELSE RolePermissions(rp, user)
ExpectedRouteKey(route) ==
  IF Len(route.methods) = 1 THEN <<route.methods[1], ":", route.path>>
  ELSE <<route.methods[1], ":", route.methods[2], ":", route.path>>

\* C18: a permission check returns for an admin, and for any other user
\* returns exactly when "<methods joined by ':'>:<path>" of the route is among
\* the user's permissions, which are the cached list when the permission key
\* exists in Redis and the permissions of the user's roles otherwise;
\* otherwise it raises PermissionDeniedException. After the check of a
\* non-admin the permission key lists exactly the permissions the check went
\* by, and no other key has changed.
C18_PermissionDecides ==
  [][\A r \in Reqs :
       (areq[r].pc = "idle" /\ areq'[r].op = "verify") =>
         LET user == areq'[r].user
             permissions == PermissionSet(redis, rolePerms, user)
             allowed == user.is_admin
                          \/ ExpectedRouteKey(areq'[r].route) \in permissions
         IN /\ areq'[r].outcome =
                 IF allowed THEN "returned" ELSE "PermissionDeniedException"
            /\ user.is_admin => redis' = redis
            /\ ~user.is_admin => Listed(redis', PermissionKey(user)) = permissions
            /\ \A k \in (DOMAIN redis \cup DOMAIN redis') \ {PermissionKey(user)} :
                 k \in DOMAIN redis /\ k \in DOMAIN redis' /\ redis'[k] = redis[k]
    ]_vars

\* C18 witness: a check of a non-admin found no permission key, rebuilt the
\* list from the roles and returned; a later check of a non-admin was served
\* from the cached list and returned although the roles no longer grant the
\* route.
C18_Witness ==
  \E q, r \in Reqs :
    /\ areq[q].op = "verify" /\ ~areq[q].user.is_admin
    /\ ~areq[q].cached /\ areq[q].outcome = "returned"
    /\ areq[r].op = "verify" /\ ~areq[r].user.is_admin
    /\ q \in areq[r].after
    /\ areq[r].cached /\ areq[r].outcome = "returned"
    /\ ExpectedRouteKey(areq[r].route) \notin RolePermissions(rolePerms, areq[r].user)

\* the call a step makes on the CRUD object
CallMade == Len(crudlog') = Len(crudlog) + 1
TheCall == crudlog'[Len(crudlog')]
\* the names of a create or create_all clash with a row of the table or with
\* each other
Clash(rows, names) ==
  \/ Cardinality({names[i] : i \in DOMAIN names}) < Len(names)
  \/ {names[i] : i \in DOMAIN names} \cap {rows[k] : k \in DOMAIN rows} # {}
FailedCreate ==
  /\ CallMade
  /\ TheCall.op \in {"create", "create_all"}
  /\ Clash(tx.rows, TheCall.args)

\* C19 (as stated): a create or create_all that violates the unique
\* constraint raises ExistsException and rolls the session back, nothing of
\* the failed call stays in the session or the table, and the records stored
\* before the call, as the session showed them, are all still there.
C19_StoredUnchanged ==
  [][FailedCreate =>
       /\ TheCall.outcome = "ExistsException"
       /\ tx'.new = <<>>
       /\ db' = db
       /\ tx'.rows = tx.rows
    ]_vars

\* C19 (amended): a create or create_all that violates the unique constraint
\* raises ExistsException and rolls the session back: nothing of the failed
\* call stays in the session or the table, the committed records are
\* unchanged, and the session shows exactly the committed records again, so
\* records written earlier in the same transaction and not yet committed are
\* rolled back with the failed call.
C19_CommittedUnchanged ==
  [][FailedCreate =>
       /\ TheCall.outcome = "ExistsException"
       /\ tx'.new = <<>>
       /\ db' = db
       /\ tx'.rows = db
    ]_vars

\* C19 witness: on a CRUD object that does not commit by itself, "a" was
\* created and committed, "b" was created and left uncommitted, and a second
\* create of "b" raised ExistsException: the table and the session hold "a"
\* alone.
C19_Witness ==
  /\ ~crud.auto_commit
  /\ Len(crudlog) = 3
  /\ crudlog[1].op = "create" /\ crudlog[1].args = <<"a">> /\ crudlog[1].auto_commit
  /\ crudlog[2].op = "create" /\ crudlog[2].args = <<"b">> /\ ~crudlog[2].auto_commit
  /\ crudlog[2].outcome = "returned"
  /\ crudlog[3].op = "create" /\ crudlog[3].args = <<"b">>
  /\ crudlog[3].outcome = "ExistsException"
  /\ {db[k] : k \in DOMAIN db} = {"a"}
  /\ tx.rows = db /\ tx.new = <<>>

\* C20: a write that is called with auto_commit=True commits the
\* transaction, the table then is what the session shows; called with
\* auto_commit=False it leaves the committed table as it was.
C20_FlagDecides ==
  [][(/\ CallMade
      /\ TheCall.op \in {"create", "create_all", "update_by_id", "delete"}
      /\ TheCall.outcome = "returned") =>
       IF TheCall.auto_commit THEN db' = tx'.rows ELSE db' = db
    ]_vars

\* the step on which an exception leaves solve_dependency for wrapper
ResolutionFails(d) == pc[d] = "resolving" /\ pc'[d] = "except"

\* C21: when the resolution of a callable fails, whether its arguments could
\* not be resolved or its invocation raised, the cache is left as it was:
\* none of the callables whose resolution was under way has an entry, the
\* entries written before are unchanged, and nothing is written afterwards.
C21_FailureWritesNothing ==
  [][\A d \in Disp :
       /\ ResolutionFails(d) =>
            /\ cache'[d] = cache[d]
            /\ \A i \in DOMAIN stack[d] : stack[d][i].func \notin DOMAIN cache'[d]
       /\ failure[d].type # "none" => cache'[d] = cache[d]
    ]_vars

\* C21 witness: C was resolved and cached, then the body of A raised: the
\* cache holds C's value and no entry for A or the handler.
C21_Witness ==
  \E d \in Disp :
    /\ failure[d].type = "RuntimeError" /\ failure[d].origin = "A"
    /\ "C" \in DOMAIN cache[d] /\ cache[d]["C"] = Produced("C", 1)
    /\ "A" \notin DOMAIN cache[d] /\ Handler \notin DOMAIN cache[d]

\* the bodies that run, in order, when the parameters j.. of f are resolved
\* depth-first in declaration order and f is invoked, given the callables
\* already cached
RECURSIVE ResolveOrder(_, _, _)
ResolveOrder(f, j, cached) ==
  IF j > Len(Signature(f)) THEN [order |-> <<f>>, cached |-> cached]
  ELSE LET dep == get_param_depend(Signature(f)[j])
       IN IF dep.kind = "None" \/ (dep.use_cache /\ dep.dependency \in cached)
            THEN ResolveOrder(f, j + 1, cached)
          ELSE LET sub == ResolveOrder(dep.dependency, 1, cached)
                   rest == ResolveOrder(f, j + 1,
                                        IF dep.use_cache
                                          THEN sub.cached \cup {dep.dependency}
                                        ELSE sub.cached)
               IN [order |-> sub.order \o rest.order, cached |-> rest.cached]
BodiesRun(d) ==
  LET calls == SelectSeq(log[d], IsCall)
  IN [i \in 1..Len(calls) |-> calls[i].f]
IsPrefix(a, b) == Len(a) <= Len(b) /\ \A i \in 1..Len(a) : a[i] = b[i]

\* C22: within one dispatch the bodies run one after the other in the
\* depth-first order of the parameter declarations: the sub-dependencies of a
\* callable before its own body, the dependency of an earlier parameter, with
\* everything below it, before that of a later one; and each body is handed,
\* for every dependency it declares, a value an earlier body has produced.
C22_DepthFirstOrder ==
  \A d \in Disp :
    log[d] # <<>> =>
    /\ LET bodies == BodiesRun(d)
       IN bodies # <<>> =>
            LET order == ResolveOrder(Handler, 1, {}).order
            IN IsPrefix(bodies, order)
    /\ \A i \in Calls(d) :
         \A j \in DOMAIN Signature(log[d][i].f) :
           LET p == Signature(log[d][i].f)[j]
           IN get_param_depend(p).kind # "None" =>
                /\ p.name \in DOMAIN log[d][i].kwargs
                /\ \E k \in Calls(d) :
                     /\ k < i
                     /\ log[d][k].f = get_param_depend(p).dependency
                     /\ log[d][k].out # "raise"
                     /\ log[d][k].value = log[d][i].kwargs[p.name]

\* C22 witness: with the cache off for C the bodies ran in the order
\* C, A, C, B, handler.
C22_Witness ==
  \E d \in Disp :
    /\ pc[d] = "done" /\ ~prog.use_cache_c
    /\ BodiesRun(d) = <<"C", "A", "C", "B", Handler>>

\* ---- C23, C24: classification of parameters
\* the classification of a declared parameter, read off its declaration
HasDepends(p) ==
  \/ /\ p.annotation.kind = "Annotated"
     /\ \E i \in DOMAIN p.annotation.metadata :
          p.annotation.metadata[i].kind \in {"Depends", "FastAPIDepends"}
  \/ p.default.kind \in {"Depends", "FastAPIDepends"}
IsMarker(p) == ~HasDepends(p) /\ p.annotation.kind \in {"SID", "Environ"}
HasPlainDefault(p) == ~HasDepends(p) /\ ~IsMarker(p) /\ p.default.kind = "value"
IsPayloadSlot(p) == ~HasDepends(p) /\ ~IsMarker(p) /\ p.default.kind = "empty"

\* positions of the payload-slot parameters of f, and the first of them
PayloadSlots(f) == {j \in DOMAIN Signature(f) : IsPayloadSlot(Signature(f)[j])}
FirstSlot(f) == CHOOSE j \in PayloadSlots(f) : \A k \in PayloadSlots(f) : j <= k
DeclaredNames(f) == {Signature(f)[j].name : j \in DOMAIN Signature(f)}

\* the entries of the log where the extractor returned a mapping for f
Extracted(d) == {i \in DOMAIN log[d] : log[d][i].ev \in {"call", "bind"}}

\* C23 as stated: whenever the extractor returns a mapping for a callable,
\* the mapping has one entry for each declared parameter and the call binds
\* without a missing argument.
C23_CompleteMapping ==
  \A d \in Disp : \A i \in Extracted(d) :
    /\ DOMAIN log[d][i].kwargs = DeclaredNames(log[d][i].f)
    /\ log[d][i].ev = "call"

\* C23 amended: the mapping has one entry for each declared parameter except
\* the payload-slot parameters after the first; the call binds without a
\* missing argument exactly when the callable declares at most one
\* payload-slot parameter.
C23_CompleteUpToOneSlot ==
  \A d \in Disp : \A i \in Extracted(d) :
    LET f == log[d][i].f
        later == IF PayloadSlots(f) = {} THEN {}
                 ELSE {Signature(f)[j].name : j \in PayloadSlots(f) \ {FirstSlot(f)}}
    IN /\ DOMAIN log[d][i].kwargs = DeclaredNames(f) \ later
       /\ log[d][i].ev = "call" <=> Cardinality(PayloadSlots(f)) <= 1

\* a three-parameter handler with one payload slot among a dependency and a
\* default was called with all three keywords
C23_Witness ==
  \E i \in Extracted(1) :
    /\ log[1][i].f = Handler /\ log[1][i].ev = "call"
    /\ Len(Signature(Handler)) = 3
    /\ Cardinality(PayloadSlots(Handler)) = 1
    /\ \E j \in DOMAIN Signature(Handler) : HasDepends(Signature(Handler)[j])
    /\ \E j \in DOMAIN Signature(Handler) : HasPlainDefault(Signature(Handler)[j])
    /\ DOMAIN log[1][i].kwargs = {"p1", "p2", "p3"}

\* a handler with two payload-slot parameters: the second has no keyword and
\* the call raises TypeError
C23_TwoSlotsWitness ==
  \E i \in Extracted(1) :
    /\ log[1][i].f = Handler /\ log[1][i].ev = "bind"
    /\ Cardinality(PayloadSlots(Handler)) = 2
    /\ failure[1].type = "TypeError" /\ failure[1].origin = "call"

\* the value the seed cache holds for a marker
Seeded(d, p) ==
  IF p.annotation.kind = "SID" THEN call[d].sid ELSE PyDict(EmptyDict)

\* C24: each parameter is classified by the first matching rule in the order
\* nested dependency, reserved marker, declared default, payload slot.  A
\* parameter carrying a dependency descriptor is bound to what the dependency
\* produced, whatever its annotation; otherwise a marker-annotated one is
\* bound to the seeded value, even when it has a default; otherwise one with
\* a default is bound to that default and not to the payload; only a
\* parameter matching none of the three is filled from the payload.
C24_FirstMatchingRule ==
  \A d \in Disp : \A i \in Extracted(d) :
    LET f == log[d][i].f
        kw == log[d][i].kwargs
    IN \A j \in DOMAIN Signature(f) :
         LET p == Signature(f)[j]
         IN IF HasDepends(p)
              THEN p.name \in DOMAIN kw /\ kw[p.name].t = "object"
            ELSE IF p.annotation.kind \in {"SID", "Environ"}
              THEN p.name \in DOMAIN kw /\ kw[p.name] = Seeded(d, p)
            ELSE IF p.default.kind = "value"
              THEN p.name \in DOMAIN kw /\ kw[p.name] = p.default.v
                   /\ kw[p.name] # call[d].data
            ELSE p.name \in DOMAIN kw =>
                   \/ kw[p.name] = call[d].data
                   \/ kw[p.name] = [t |-> "model", cls |-> "RedisUser", m |-> call[d].data.m]

\* the handler (p1: Environ = 10, p2: int = 10, p3) was called with the
\* seeded environ, the default and the payload
C24_Witness ==
  \E i \in Extracted(1) :
    /\ log[1][i].f = Handler /\ log[1][i].ev = "call"
    /\ Len(Signature(Handler)) = 3
    /\ Signature(Handler)[1].annotation.kind = "Environ"
    /\ Signature(Handler)[1].default = Default(PyInt(10))
    /\ HasPlainDefault(Signature(Handler)[2])
    /\ IsPayloadSlot(Signature(Handler)[3])
    /\ log[1][i].kwargs = [k \in {"p1", "p2", "p3"} |->
          IF k = "p1" THEN PyDict(EmptyDict)
          ELSE IF k = "p2" THEN PyInt(10) ELSE PyInt(5)]

\* ---- C26: a failing cleanup and the cleanups after it
\* C26 as stated: when a teardown callback raises while the teardowns are
\* run, every teardown registered before it is still executed before the
\* dispatch ends.
C26_RemainingTeardownsRun ==
  \A d \in Disp :
    pc[d] = "done" =>
      \A c \in Cleanups(d) :
        log[d][c].out = "raise" =>
          \A j \in DOMAIN teardowns[d] :
            (teardowns[d][j].f = log[d][c].f /\ teardowns[d][j].n = log[d][c].n) =>
              \A k \in 1..(j - 1) :
                \E c2 \in Cleanups(d) : /\ c2 > c
                                        /\ log[d][c2].f = teardowns[d][k].f
                                        /\ log[d][c2].n = teardowns[d][k].n

\* ---- C25: cancellation of a dispatch
\* A dispatch is an asyncio task; task.cancel() raises CancelledError at the
\* await the task is suspended in.  During resolution that is inside the
\* body of an `async def` callable (`await result`, `await
\* result.__anext__()`): a dependency declared async, or the handler.
IsAsync(f) == IF f = Handler THEN TRUE ELSE prog.shape[f] \in {"coroutine", "asyncgen"}

\* the body on top of the stack was entered, suspended, and is cancelled
\* before it returns or yields: nothing is cached or registered for it, and
\* CancelledError (matched by neither except clause) reaches the finally block
Cancel(d) ==
  /\ pc[d] = "resolving"
  /\ stack[d] # <<>>
  /\ Top(d).idx > Len(Signature(Top(d).func))
  /\ IsAsync(Top(d).func)
  /\ FinalKwargs(d).exc.type = "none"
  /\ Binds(Top(d).func, FinalKwargs(d).value)
  /\ log' = [log EXCEPT ![d] = Append(@,
        [ev |-> "call", f |-> Top(d).func, n |-> Invocations(d, Top(d).func) + 1,
         kwargs |-> FinalKwargs(d).value, out |-> "raise", value |-> PyNone])]
  /\ Propagate(d, Exception("CancelledError", Top(d).func, <<>>))
  /\ UNCHANGED <<prog, call, cache, teardowns, tdi, ret, outbox>>
  /\ UNCHANGED extVars

InitCancel == Init /\ prog.data_annotation = Plain("empty")

TriggerCancel(d) ==
  /\ Trigger(d)
  /\ call'[d].event = "message"
  /\ call'[d].raw = <<PyStr(1), PyInt(5)>>

\* no body raises by itself
InvokeCancel(d) ==
  /\ Invoke(d)
  /\ exc'[d].type = "none"
  /\ log'[d][Len(log'[d])].value # PyFalse

NextCancel ==
  \/ TriggerCancel(1)
  \/ ExtractParam(1)
  \/ InvokeCancel(1)
  \/ Cancel(1)
  \/ Except(1)
  \/ RunTeardown(1)
  \/ Leave(1)

SpecCancel == InitCancel /\ [][NextCancel]_vars

Cancelled(d) == failure[d].type = "CancelledError"

\* C25 as stated: when a dispatch was cancelled while resolution or the
\* handler was suspended, every teardown registered so far has been run when
\* the dispatch ends.
C25_CancelledRunsTeardowns ==
  \A d \in Disp :
    (pc[d] = "done" /\ Cancelled(d)) =>
      \A k \in DOMAIN teardowns[d] :
        \E c \in Cleanups(d) : /\ log[d][c].f = teardowns[d][k].f
                               /\ log[d][c].n = teardowns[d][k].n

\* what does hold: the finally block is entered on cancellation and runs the
\* teardowns until one of them raises
C25_CancelledRunsUntilFailure ==
  \A d \in Disp :
    (pc[d] = "done" /\ Cancelled(d)) =>
      \/ \E c \in Cleanups(d) : log[d][c].out = "raise"
      \/ \A k \in DOMAIN teardowns[d] :
           \E c \in Cleanups(d) : /\ log[d][c].f = teardowns[d][k].f
                                  /\ log[d][c].n = teardowns[d][k].n

\* the handler was cancelled with the generators C, A and B registered and
\* all three cleanups ran
C25_CancelledWitness ==
  /\ pc[1] = "done" /\ Cancelled(1) /\ failure[1].origin = Handler
  /\ Len(teardowns[1]) = 3
  /\ Len(SelectSeq(log[1], IsCleanup)) = 3

\* ------------------------------------------------------- core/lifecycle
\* Routes as store_router_in_db sees them: FastAPIRouterCreate for the
\* application (one per decorated endpoint, so api/v1/roles.py gives GET and
\* POST on the same path), InterfaceRouter rows, which also carry an id, for
\* the database.  Endpoint names are distinct, and so are the rows' names
\* (unique column) and, the table being written by this function only, paths.
Paths == {"/roles", "/users"}
MethodLists == {<<"GET">>, <<"POST">>}
RouteNames == {"n1", "n2", "n3"}
Descriptions == {"d1", "d2"}
FastAPIRouterCreate ==
  [path : Paths, methods : MethodLists, name : RouteNames, description : Descriptions]
Distinct(l, Key(_)) == \A i, j \in DOMAIN l : i # j => Key(l[i]) # Key(l[j])
NameOf(r) == r.name
PathOf(r) == r.path
EndpointOf(r) == <<r.path, r.methods>>
AppRouteLists ==
  {l \in UNION {[1..n -> FastAPIRouterCreate] : n \in 0..MaxRoutes} :
     Distinct(l, NameOf) /\ Distinct(l, EndpointOf)}
InterfaceRouter(id, r) ==
  [id |-> id, path |-> r.path, methods |-> r.methods, name |-> r.name,
   description |-> r.description]
DbRouteLists ==
  {[i \in DOMAIN l |-> InterfaceRouter(i, l[i])] :
     l \in {a \in AppRouteLists : Distinct(a, PathOf)}}

\* {item.path: item for item in routes}: the last item of a path wins, the
\* keys keep the order of their first occurrence
RECURSIVE Keys(_)
Keys(routes) ==
  IF routes = <<>> THEN <<>>
  ELSE LET front == Keys(SubSeq(routes, 1, Len(routes) - 1))
           p == routes[Len(routes)].path
       IN IF \E i \in DOMAIN front : front[i] = p THEN front ELSE Append(front, p)
ByPath(routes) ==
  [p \in {routes[i].path : i \in DOMAIN routes} |->
     routes[CHOOSE i \in DOMAIN routes :
              /\ routes[i].path = p
              /\ \A j \in DOMAIN routes : routes[j].path = p => j <= i]]

\* {**changed_info, "id": old_route.id}, or no dict when nothing differs
ChangedInfo(old_route, new_route) ==
  LET changed == {k \in {"methods", "description", "name"} : old_route[k] # new_route[k]}
  IN [k \in (IF changed = {} THEN {} ELSE changed \cup {"id"}) |->
        IF k = "id" THEN old_route.id ELSE new_route[k]]

diff_api_routes(db_routes, app_routes) ==
  LET old_router == ByPath(db_routes)
      new_router == ByPath(app_routes)
      IsAdded(p) == p \notin DOMAIN old_router
      IsRemoved(p) == p \notin DOMAIN new_router
      IsModified(p) == /\ p \in DOMAIN new_router
                       /\ DOMAIN ChangedInfo(old_router[p], new_router[p]) # {}
      add == SelectSeq(Keys(app_routes), IsAdded)
      rem == SelectSeq(Keys(db_routes), IsRemoved)
      mod == SelectSeq(Keys(db_routes), IsModified)
  IN [added_routes |-> [i \in DOMAIN add |-> new_router[add[i]]],
      removed_routes |-> [i \in DOMAIN rem |-> old_router[rem[i]].id],
      modified_routes |-> [i \in DOMAIN mod |->
                             ChangedInfo(old_router[mod[i]], new_router[mod[i]])]]

\* the interface_routers table: id -> row
TableOf(db_routes) ==
  [id \in {db_routes[i].id : i \in DOMAIN db_routes} |->
     CHOOSE r \in {db_routes[i] : i \in DOMAIN db_routes} : r.id = id]
NameTaken(table, name, but) ==
  \E id \in DOMAIN table \ {but} : table[id].name = name
FreshId(table, n) ==
  (IF DOMAIN table = {} THEN 0
   ELSE CHOOSE m \in DOMAIN table : \A k \in DOMAIN table : k <= m) + n

\* router_db.create_all(add_routes): one flush inserts all; a name that is
\* in the table already violates the unique column and nothing is inserted
RouterCreateAll(table, creates_in) ==
  IF \E i \in DOMAIN creates_in : NameTaken(table, creates_in[i].name, 0)
    THEN [table |-> table, outcome |-> "ExistsException"]
  ELSE [table |-> [id \in DOMAIN table \cup {FreshId(table, i) : i \in DOMAIN creates_in} |->
                     IF id \in DOMAIN table THEN table[id]
                     ELSE InterfaceRouter(id, creates_in[id - FreshId(table, 0)])],
        outcome |-> "returned"]

\* router_db.delete_all(remove_routes)
RouterDeleteAll(table, ids) ==
  [table |-> [id \in DOMAIN table \ {ids[i] : i \in DOMAIN ids} |-> table[id]],
   outcome |-> "returned"]

\* router_db.update_all(update_routes): one UPDATE per item, in order; an
\* UPDATE that repeats another row's name raises IntegrityError, which is
\* rolled back and re-raised as SQLAlchemyError
RECURSIVE RouterUpdateAll(_, _, _)
RouterUpdateAll(before, table, updates_in) ==
  IF updates_in = <<>> THEN [table |-> table, outcome |-> "returned"]
  ELSE LET u == updates_in[1]
           row == [k \in DOMAIN table[u["id"]] |->
                     IF k \in DOMAIN u THEN u[k] ELSE table[u["id"]][k]]
       IN IF NameTaken(table, row.name, u["id"])
            THEN [table |-> before, outcome |-> "SQLAlchemyError"]
          ELSE RouterUpdateAll(before,
                               [table EXCEPT ![u["id"]] = row], Tail(updates_in))

NoDiff == [added_routes |-> <<>>, removed_routes |-> <<>>, modified_routes |-> <<>>]

InitDiff ==
  /\ prog = CHOOSE p \in ConcProgs : p.use_cache_c
  /\ Constructed
  /\ startup \in {[phase |-> "start", db_routes |-> d, app_routes |-> a,
                   diff |-> NoDiff, table |-> TableOf(d), outcome |-> "none"] :
                    d \in DbRouteLists, a \in AppRouteLists}

\* db_routes = await router_db.get_all(); diff_api_routes(db_routes, app_routes)
DiffRoutes ==
  /\ startup.phase = "start"
  /\ startup' = [startup EXCEPT !.phase = "diffed",
                                !.diff = diff_api_routes(startup.db_routes, startup.app_routes)]
  /\ UNCHANGED <<wsVars, outbox, apiVars, authVars, crudVars, rcalls>>

\* one of the three guarded calls of store_router_in_db; an exception ends
\* the function
StoreStep(to, items, res) ==
  /\ startup' = IF items = <<>> THEN [startup EXCEPT !.phase = to]
                ELSE [startup EXCEPT !.phase = IF res.outcome = "returned" THEN to ELSE "failed",
                                     !.table = res.table,
                                     !.outcome = res.outcome]
  /\ UNCHANGED <<wsVars, outbox, apiVars, authVars, crudVars, rcalls>>

StoreAdded ==
  /\ startup.phase = "diffed"
  /\ StoreStep("added", startup.diff.added_routes,
               RouterCreateAll(startup.table, startup.diff.added_routes))
StoreRemoved ==
  /\ startup.phase = "added"
  /\ StoreStep("removed", startup.diff.removed_routes,
               RouterDeleteAll(startup.table, startup.diff.removed_routes))
StoreModified ==
  /\ startup.phase = "removed"
  /\ StoreStep("stored", startup.diff.modified_routes,
               RouterUpdateAll(startup.table, startup.table, startup.diff.modified_routes))

NextDiff ==
  \/ DiffRoutes
  \/ StoreAdded
  \/ StoreRemoved
  \/ StoreModified

SpecDiff == InitDiff /\ [][NextDiff]_vars

\* ---- C27
Seq2Set(l) == {l[i] : i \in DOMAIN l}
StoredRoutes ==
  {[path |-> startup.table[id].path, methods |-> startup.table[id].methods,
    name |-> startup.table[id].name, description |-> startup.table[id].description] :
     id \in DOMAIN startup.table}
Ended_startup == startup.phase \in {"stored", "failed"}

\* C27: for every list of database routes and of application routes (routes
\* of the application may share a path), diff_api_routes returns as added
\* every application route whose path the database lacks, as removed the id
\* of every database route whose path the application lacks, as modified
\* every route on a path of both whose methods, description or name differ;
\* and once store_router_in_db has applied the three lists the stored routes
\* equal the application's routes.
C27_DiffSynchronises ==
  /\ startup.phase # "idle" /\ startup.phase # "start" =>
       LET dbr == startup.db_routes
           app == startup.app_routes
           d == startup.diff
       IN /\ \A i \in DOMAIN app :
               (\A j \in DOMAIN dbr : dbr[j].path # app[i].path)
                 => app[i] \in Seq2Set(d.added_routes)
          /\ \A j \in DOMAIN dbr :
               (\A i \in DOMAIN app : app[i].path # dbr[j].path)
                 <=> dbr[j].id \in Seq2Set(d.removed_routes)
          /\ \A j \in DOMAIN dbr : \A i \in DOMAIN app :
               (/\ app[i].path = dbr[j].path
                /\ \/ app[i].methods # dbr[j].methods
                   \/ app[i].description # dbr[j].description
                   \/ app[i].name # dbr[j].name)
                 => \E k \in DOMAIN d.modified_routes : d.modified_routes[k]["id"] = dbr[j].id
  /\ Ended_startup => StoredRoutes = Seq2Set(startup.app_routes)

\* --------------------------------------- core/redis_client, all value types
\* Keys are the text "k" as str, as its UTF-8 bytes, or as a memoryview of
\* them.  Values are scalars, lists and dicts of scalars.  The connection
\* pool is made with decode_responses=True: replies are str.
PyBytes(s) == [t |-> "bytes", v |-> s]
PyMemoryview(s) == [t |-> "memoryview", v |-> s]
KeyTypes == {"str", "bytes", "memoryview"}
RedisKeys == {[t |-> ty, v |-> "k"] : ty \in KeyTypes}
Scalars == {PyStr("a"), PyInt(5), PyBytes("a"), PyMemoryview("a")}
Elements == {PyStr("a"), PyInt(5)}
ListValues == {[t |-> "list", v |-> l] : l \in UNION {[1..n -> Elements] : n \in 0..MaxList}}
DictValues == {PyDict(m) : m \in UNION {[F -> Elements] : F \in SUBSET {"f", "g"}}}
RedisValues == Scalars \cup ListValues \cup DictValues

\* str(key) of a bytes key is its repr
_to_str_repr(key) ==
  [t |-> "str", v |-> IF key.t = "str" THEN key.v ELSE "b'" \o key.v \o "'"]

\* AsyncRedisClient._to_str: bytes and memoryview keys are decoded
_to_str(key) == [t |-> "str", v |-> key.v]

\* redis-py's Encoder.encode: what goes on the wire for a key or a value.
\* str is encoded as UTF-8, numbers through repr, bytes and memoryview go
\* as they are; wire text is written as the string it decodes to
encode(x) == IF x.t = "int" THEN ToString(x.v) ELSE x.v
\* Encoder.decode of a reply
decode(b) == PyStr(b)

NoReply == [exc |-> "none", value |-> PyNone]
Holds(rd, k) == k \in DOMAIN rd
TypeAt(rd, k) == IF Holds(rd, k) THEN rd[k].type ELSE "none"
Put(rd, k, type, v) ==
  [x \in DOMAIN rd \cup {k} |-> IF x = k THEN [type |-> type, v |-> v, ttl |-> "none"] ELSE rd[x]]

\* AsyncRedisClient.set without ttl: the pipeline holds one command.  hset
\* with an empty mapping raises DataError when it is queued; LPUSH without
\* values and a command on a key of another type fail in execute()
AsyncRedisClient_set(rd, key, value) ==
  IF value.t = "dict"
    THEN LET k == encode(_to_str(key))
             old == IF Holds(rd, k) /\ rd[k].type = "hash" THEN rd[k].v ELSE [f \in {} |-> ""]
         IN IF DOMAIN value.m = {} THEN [redis |-> rd, exc |-> "DataError"]
            ELSE IF TypeAt(rd, k) \notin {"none", "hash"}
              THEN [redis |-> rd, exc |-> "ResponseError"]
            ELSE [redis |-> Put(rd, k, "hash",
                                [f \in DOMAIN old \cup DOMAIN value.m |->
                                   IF f \in DOMAIN value.m THEN encode(value.m[f]) ELSE old[f]]),
                  exc |-> "none"]
  ELSE IF value.t = "list"
    THEN LET k == encode(_to_str(key))
             old == IF Holds(rd, k) /\ rd[k].type = "list" THEN rd[k].v ELSE <<>>
         IN IF value.v = <<>> \/ TypeAt(rd, k) \notin {"none", "list"}
              THEN [redis |-> rd, exc |-> "ResponseError"]
            ELSE [redis |-> Put(rd, k, "list",
                                reversed([i \in DOMAIN value.v |-> encode(value.v[i])]) \o old),
                  exc |-> "none"]
  ELSE [redis |-> Put(rd, encode(key), "string", encode(value)), exc |-> "none"]

\* AsyncRedisClient.get: GET key
AsyncRedisClient_get(rd, key) ==
  LET k == encode(key)
  IN IF ~Holds(rd, k) THEN NoReply
     ELSE IF rd[k].type # "string" THEN [exc |-> "ResponseError", value |-> PyNone]
     ELSE [exc |-> "none", value |-> decode(rd[k].v)]

\* AsyncRedisClient.get_mapping: HGETALL key
AsyncRedisClient_get_mapping(rd, key) ==
  LET k == encode(key)
  IN IF ~Holds(rd, k) THEN [exc |-> "none", value |-> PyDict(EmptyDict)]
     ELSE IF rd[k].type # "hash" THEN [exc |-> "ResponseError", value |-> PyNone]
     ELSE [exc |-> "none", value |-> PyDict([f \in DOMAIN rd[k].v |-> decode(rd[k].v[f])])]

\* AsyncRedisClient.get_array: LRANGE key 0 -1
AsyncRedisClient_get_array(rd, key) ==
  LET k == encode(key)
  IN IF ~Holds(rd, k) THEN [exc |-> "none", value |-> [t |-> "list", v |-> <<>>]]
     ELSE IF rd[k].type # "list" THEN [exc |-> "ResponseError", value |-> PyNone]
     ELSE [exc |-> "none",
           value |-> [t |-> "list", v |-> [i \in DOMAIN rd[k].v |-> decode(rd[k].v[i])]]]

CanCallRedis == Len(rcalls) < MaxRedis

ClientSet ==
  /\ CanCallRedis
  /\ \E key \in RedisKeys : \E value \in RedisValues :
       LET r == AsyncRedisClient_set(redis, key, value)
       IN /\ redis' = r.redis
          /\ rcalls' = Append(rcalls, [op |-> "set", key |-> key, arg |-> value,
                                        fresh |-> ~Holds(redis, encode(key)),
                                        exc |-> r.exc, value |-> PyNone])
  /\ UNCHANGED <<wsVars, outbox, apiVars, last_jti, rolePerms, areq, crudVars, startup>>

Getters == {"get", "get_mapping", "get_array"}
ClientGet ==
  /\ CanCallRedis
  /\ \E key \in RedisKeys : \E op \in Getters :
       LET r == CASE op = "get" -> AsyncRedisClient_get(redis, key)
                  [] op = "get_mapping" -> AsyncRedisClient_get_mapping(redis, key)
                  [] op = "get_array" -> AsyncRedisClient_get_array(redis, key)
       IN rcalls' = Append(rcalls, [op |-> op, key |-> key, arg |-> PyNone, fresh |-> FALSE,
                                     exc |-> r.exc, value |-> r.value])
  /\ UNCHANGED <<wsVars, outbox, apiVars, authVars, crudVars, startup>>

NextRedis ==
  \/ ClientSet
  \/ ClientGet

SpecRedis == ServerIdle /\ [][NextRedis]_vars

\* ---- C28
\* str(value) of a scalar
StrForm(x) == PyStr(IF x.t = "int" THEN ToString(x.v) ELSE x.v)
Getter(value) ==
  IF value.t = "dict" THEN "get_mapping"
  ELSE IF value.t = "list" THEN "get_array" ELSE "get"
Count(l, e) == Cardinality({i \in DOMAIN l : l[i] = e})
SameElements(a, b) ==
  /\ Len(a) = Len(b)
  /\ \A i \in DOMAIN a : Count(a, a[i]) = Count(b, a[i])
\* a set on a key holding no value, directly followed by the getter matching
\* the value's type on a key of the same text
RoundTrips ==
  {i \in 1..(Len(rcalls) - 1) :
     /\ rcalls[i].op = "set" /\ rcalls[i].fresh
     /\ rcalls[i + 1].op = Getter(rcalls[i].arg)}

\* C28 as stated: on a key that holds no value, set followed by the matching
\* getter returns what was stored, for str, bytes and memoryview keys: get
\* returns the scalar's string form, get_mapping a dict equal to the stored
\* dict, get_array exactly the elements of the stored list.
C28_RoundTrip ==
  \A i \in RoundTrips :
    LET stored == rcalls[i].arg
        got == rcalls[i + 1]
    IN /\ rcalls[i].exc = "none" /\ got.exc = "none"
       /\ IF stored.t = "dict" THEN got.value = stored
          ELSE IF stored.t = "list" THEN SameElements(got.value.v, stored.v)
          ELSE got.value = StrForm(stored)

\* C28 amended: a scalar comes back as its string form; a non-empty dict
\* comes back with every value in its string form; a non-empty list comes
\* back with every element in its string form, in reverse order; set of an
\* empty dict or list raises, stores nothing, and the getter finds no value.
C28_RoundTripAsStrings ==
  \A i \in RoundTrips :
    LET stored == rcalls[i].arg
        got == rcalls[i + 1]
    IN /\ got.exc = "none"
       /\ IF stored.t = "dict"
            THEN IF DOMAIN stored.m = {}
                   THEN rcalls[i].exc = "DataError" /\ got.value = PyDict(EmptyDict)
                 ELSE /\ rcalls[i].exc = "none"
                      /\ got.value = PyDict([f \in DOMAIN stored.m |-> StrForm(stored.m[f])])
          ELSE IF stored.t = "list"
            THEN IF stored.v = <<>>
                   THEN rcalls[i].exc = "ResponseError" /\ got.value.v = <<>>
                 ELSE /\ rcalls[i].exc = "none"
                      /\ got.value.v = [k \in DOMAIN stored.v |->
                                          StrForm(stored.v[Len(stored.v) - k + 1])]
          ELSE rcalls[i].exc = "none" /\ got.value = StrForm(stored)

\* the list ["a", 5] stored under the bytes key came back as ["5", "a"]
\* through the str key
C28_Witness ==
  /\ Len(rcalls) = 2
  /\ rcalls[1].op = "set" /\ rcalls[1].fresh /\ rcalls[1].key.t = "bytes"
  /\ rcalls[1].arg = [t |-> "list", v |-> <<PyStr("a"), PyInt(5)>>]
  /\ rcalls[2].op = "get_array" /\ rcalls[2].key.t = "str"
  /\ rcalls[2].value.v = <<PyStr("5"), PyStr("a")>>

\* ------------------------------------------------ concurrent refreshes
\* Requests are served as asyncio tasks (and by several workers): a refresh
\* request may begin while others are between two awaits of
\* refresh_user_token.  Every login succeeds.
NextRefresh ==
  \/ \E r \in Reqs : LoginPerm(r)
  \/ \E r \in Reqs : RefreshStart(r)
  \/ \E r \in Reqs : RefreshExists(r)
  \/ \E r \in Reqs : RefreshDelete(r)
  \/ \E r \in Reqs : RefreshCreate(r)
  \/ \E r \in Reqs : RefreshCache(r)

SpecRefresh == ServerIdle /\ [][NextRefresh]_vars

\* ---- C29
\* refresh requests q and r present the same refresh token
SameToken(q, r) ==
  /\ q # r
  /\ areq[q].op = "refresh" /\ areq[r].op = "refresh"
  /\ areq[q].user.id = areq[r].user.id
  /\ areq[q].jti = areq[r].jti

\* C29 as stated: of the refresh requests that present the same refresh
\* token, at most one returns a new token pair, under every interleaving.
C29_AtMostOneRefresh ==
  \A q, r \in Reqs :
    SameToken(q, r) => ~(areq[q].outcome = "returned" /\ areq[r].outcome = "returned")

\* ------------------------------------------------ crud: batch update
\* the loop of update_all over the remaining items: `update_info.pop("id",
\* None)`, one UPDATE ... WHERE id = _id per item.  InvalidParameterError and
\* NotFoundException are not SQLAlchemyError, so they leave the try block
\* without the rollback; an UPDATE that repeats another row's name raises
\* IntegrityError, which is one
RECURSIVE update_each(_, _)
update_each(S, updates_in) ==
  IF updates_in = <<>> THEN [session |-> S, outcome |-> "returned"]
  ELSE LET update_info == updates_in[1]
       IN IF "id" \notin DOMAIN update_info
            THEN [session |-> S, outcome |-> "InvalidParameterError"]
          ELSE IF update_info["id"] \notin DOMAIN S.rows
            THEN [session |-> S, outcome |-> "NotFoundException"]
          ELSE IF \E i \in DOMAIN S.rows : i # update_info["id"] /\ S.rows[i] = update_info["name"]
            THEN [session |-> session_rollback(S), outcome |-> "SQLAlchemyError"]
          ELSE update_each([S EXCEPT !.rows[update_info["id"]] = update_info["name"]],
                           Tail(updates_in))

\* BaseSQLModelCRUD.update_all
update_all(self, S, updates_in, auto_commit) ==
  IF updates_in = <<>>
    THEN [session |-> S, outcome |-> "InvalidParameterError", committed |-> FALSE]
  ELSE LET looped == update_each(S, updates_in)
           done == commit(self, looped.session, auto_commit)
       IN IF looped.outcome # "returned"
            THEN [session |-> looped.session, outcome |-> looped.outcome, committed |-> FALSE]
          ELSE [session |-> done.session, outcome |-> "returned", committed |-> done.committed]

\* the items a caller passes: a name, one of the rows' or a new one, for a
\* row it can see or for no row, or a name without an id
NewNames == Names \cup {"c"}
UpdateItems ==
  {[id |-> i, name |-> n] : i \in Ids, n \in NewNames} \cup {[name |-> n] : n \in NewNames}

\* the caller makes one batch update on the session
UpdateAll ==
  /\ CanCall
  /\ \A i \in DOMAIN crudlog : crudlog[i].op # "update_all"
  /\ \E n \in 0..2 : \E updates_in \in [1..n -> UpdateItems] : \E auto_commit \in BOOLEAN :
       CrudCall("update_all", updates_in, auto_commit,
                update_all(crud, Session, updates_in, auto_commit))

\* the rows a batch is applied to: create_all of two names
CreateTwo ==
  /\ CanCall
  /\ \E auto_commit \in BOOLEAN :
       CrudCall("create_all", <<"a", "b">>, auto_commit,
                create_all(crud, Session, <<"a", "b">>, auto_commit))

NextBatch ==
  \/ Construct
  \/ CreateTwo
  \/ UpdateAll
  \/ SessionCommit
  \/ SessionRollback

SpecBatch == ServerIdle /\ [][NextBatch]_vars

\* ---- C30
\* this step is a call of update_all that raised
UpdateAllFailed ==
  /\ Len(crudlog') = Len(crudlog) + 1
  /\ crudlog'[Len(crudlog')].op = "update_all"
  /\ crudlog'[Len(crudlog')].outcome # "returned"

\* C30 as stated: when update_all fails on any item, the stored records are
\* as before the call and the session holds none of the batch's updates, so
\* that no later commit on the session can persist one: a row the session
\* sees differently after the call has gone back to its committed value.
C30_AllOrNothing ==
  [][UpdateAllFailed =>
       /\ db' = db
       /\ DOMAIN tx'.rows \subseteq DOMAIN tx.rows
       /\ \A id \in DOMAIN tx'.rows :
            tx'.rows[id] # tx.rows[id] => (id \in DOMAIN db /\ tx'.rows[id] = db[id])
    ]_vars

\* the failed batch reached the table: update_all raised after it had
\* renamed a row, and session.commit() then stored the new name
C30_PartialBatchPersisted ==
  /\ Len(crudlog) = 3
  /\ crudlog[1].op = "create_all" /\ crudlog[1].committed
  /\ crudlog[2].op = "update_all" /\ crudlog[2].outcome = "InvalidParameterError"
  /\ Len(crudlog[2].args) = 2
  /\ crudlog[3].op = "session.commit"
  /\ \E id \in DOMAIN db : db[id] = crudlog[2].args[1]["name"] /\ db[id] \notin {"a", "b"}

====
